---------------------------- MODULE Spec2Model ----------------------------
(***************************************************************************)
(* diffmig: comparison of two registry exports.                            *)
(*                                                                         *)
(* The parts of the program are modelled each with a specification of its *)
(* own over the shared variables:                                          *)
(*   SpecDiff    the structural diff engine (impl Diff for CDE, Section,   *)
(*               Form, ClinicalDatum, PatientSlice in clinical_data.rs);   *)
(*   SpecReader  the incremental array reader (read_array_file_to_values); *)
(*   SpecDecode  the record model builder (ClinicalDatum::from and the     *)
(*               get_* helpers);                                           *)
(*   SpecAssembler  the patient slice assembler of registry_data.rs and    *)
(*               migrated_registry.rs (RegistryData::next), polled to its  *)
(*               end;                                                      *)
(*   SpecStreaming  the assembler of streaming.rs, the one main.rs wires;  *)
(*   SpecDriver  zip_diff of main.rs over two assemblers.                  *)
(*                                                                         *)
(* Rust values are modelled as tagged records: an enum value is a record   *)
(* with a `tag` field and its payload, Option<T> is None / Some(v), a      *)
(* HashMap is a function whose DOMAIN is the key set, a Vec is a sequence. *)
(* A Number (f64) is an integer count of thousandths, so that subtraction  *)
(* is exact; the rounding of decimal literals to f64 is not modelled.      *)
(***************************************************************************)
EXTENDS Integers, Sequences, FiniteSets, TLC

VARIABLES
    \* ---- diff engine
    level,      \* which impl of Diff is exercised
    lhs,        \* `self`
    rhs,        \* `comp`
    iterOrder,  \* the HashMap iteration order in force (unspecified in Rust)
    diffPc,     \* "start" | "diffed" | "swapped"
    result,     \* self.diff(comp)
    swapped,    \* comp.diff(self)
    \* ---- incremental array reader
    lines,      \* the lines of the input file
    pos,        \* how many of them reader.lines() has yielded
    partial,    \* the `partial` buffer
    emitted,    \* the values the iterator has yielded, in order
    rdState,    \* "reading" | "ended" | "panicked"
    peak,       \* the largest length `partial` has had
    \* ---- record model builder
    decFn,      \* the function called: "from" | "get_cde_value"
    decIn,      \* its argument, a serde_json::Value
    decPc,      \* "start" | "done"
    decOut,     \* what it returned
    \* ---- slice assembler and lockstep driver
    its,        \* per side ("old", "new"): the Peekable over the decoded rows
    caller,     \* who polls the assembler: "collect" | "zip_diff"
    wiring,     \* whose RegistryData::next runs: "registry_data" | "streaming"
    cur,        \* the side whose next() is running
    pc,         \* where the run is
    slice,      \* the PatientSlice next() is building
    adds,       \* how many add calls it has received
    ret,        \* per side: what the last next() returned
    yielded,    \* per side: the slices yielded so far
    skip_input, \* zip_diff's skip_input
    total,      \* the sum zip_diff has accumulated
    pending,    \* diffs.len() of the pair at the gate
    log         \* what has been printed and asked, in order

diffVars == <<level, lhs, rhs, iterOrder, diffPc, result, swapped>>
readerVars == <<lines, pos, partial, emitted, rdState, peak>>
decodeVars == <<decFn, decIn, decPc, decOut>>

asmVars == <<its, caller, wiring, cur, pc, slice, adds, ret, yielded>>
zipVars == <<skip_input, total, pending, log>>
pipeVars == <<asmVars, zipVars>>

vars == <<diffVars, readerVars, decodeVars, pipeVars>>

Sides == {"old", "new"}

PipeIdle ==
    /\ its = [s \in Sides |-> [tag |-> "None"]]
    /\ caller = "none"
    /\ wiring = "none"
    /\ cur = "old"
    /\ pc = "idle"
    /\ slice = [tag |-> "None"]
    /\ adds = 0
    /\ ret = [s \in Sides |-> [tag |-> "None"]]
    /\ yielded = [s \in Sides |-> <<>>]
    /\ skip_input = FALSE
    /\ total = 0
    /\ pending = 0
    /\ log = <<>>

-----------------------------------------------------------------------------
(* Generic helpers *)

None == [tag |-> "None"]
Some(v) == [tag |-> "Some", val |-> v]

Abs(x) == IF x < 0 THEN -x ELSE x
Min(a, b) == IF a <= b THEN a ELSE b

RECURSIVE Flatten(_)
Flatten(ss) == IF ss = <<>> THEN <<>> ELSE Head(ss) \o Flatten(Tail(ss))

RECURSIVE SetToSeq(_)
PickFirst(S, x) == <<x>> \o SetToSeq(S \ {x})
SetToSeq(S) == IF S = {} THEN <<>> ELSE PickFirst(S, CHOOSE y \in S : TRUE)

Reverse(s) == [i \in 1..Len(s) |-> s[Len(s) + 1 - i]]

\* HashMap::iter(): the keys of map m in the order this run iterates them.
iter(m) == IF iterOrder = 0 THEN SetToSeq(DOMAIN m) ELSE Reverse(SetToSeq(DOMAIN m))

\* `match diffs.is_empty() { true => None, false => Some(..) }`
OptVec(diffs) == IF diffs = <<>> THEN None ELSE Some(diffs)

\* what `match x { None => {}, Some(d) => diffs.extend(d) }` appends
OptSeq(o) == IF o.tag = "None" THEN <<>> ELSE o.val

-----------------------------------------------------------------------------
(* diff.rs *)

discriminant(x) == x.tag

\* eq_diff!(cond, a, b, vec, variant): push variant(a, b) when cond
eq_diff(cond, a, b, variant) ==
    IF cond THEN <<[type |-> variant, left |-> a, right |-> b]>> ELSE <<>>

\* variant_diff!(a, b, vec, variant): push variant(a, b) on a tag mismatch
variant_diff(a, b, variant) ==
    IF discriminant(a) # discriminant(b)
    THEN <<[type |-> variant, left |-> a, right |-> b]>>
    ELSE <<>>

Missing(l, r) == [type |-> "Missing", left |-> l, right |-> r]

-----------------------------------------------------------------------------
(* clinical_data.rs: the diff engine *)

\* 0.01, in thousandths
Tolerance == 10

NumberDiffers_Ge(n1, n2) == Abs(n1 - n2) >= Tolerance

\* (n1 - n2).abs() > 0.01
NumberDiffers(n1, n2) == Abs(n1 - n2) > Tolerance

FileDiffers(f1, f2) ==
    f1.file_name # f2.file_name \/ f1.django_file_id # f2.django_file_id

PayloadCompare_NoShortCircuit(v1, v2) ==
    IF v1.tag # v2.tag THEN eq_diff(TRUE, v1, v2, "Equality")
    ELSE IF v1.tag = "Bool" THEN eq_diff(v1.b # v2.b, v1, v2, "Equality")
    ELSE IF v1.tag = "String" THEN eq_diff(v1.s # v2.s, v1, v2, "Equality")
    ELSE IF v1.tag = "Number" THEN eq_diff(NumberDiffers(v1.n, v2.n), v1, v2, "Equality")
    ELSE IF v1.tag = "Range" THEN eq_diff(v1.r # v2.r, v1, v2, "Equality")
    ELSE IF v1.tag = "File" THEN eq_diff(FileDiffers(v1, v2), v1, v2, "Equality")
    ELSE <<>>

\* the `match (&self.value, &comp.value)` of CDE::diff
PayloadCompare(v1, v2) ==
    IF v1.tag = "Bool" /\ v2.tag = "Bool"
        THEN eq_diff(v1.b # v2.b, v1, v2, "Equality")
    ELSE IF v1.tag = "String" /\ v2.tag = "String"
        THEN eq_diff(v1.s # v2.s, v1, v2, "Equality")
    ELSE IF v1.tag = "Number" /\ v2.tag = "Number"
        THEN eq_diff(NumberDiffers(v1.n, v2.n), v1, v2, "Equality")
    ELSE IF v1.tag = "Range" /\ v2.tag = "Range"
        THEN eq_diff(v1.r # v2.r, v1, v2, "Equality")
    ELSE IF v1.tag = "File" /\ v2.tag = "File"
        THEN eq_diff(FileDiffers(v1, v2), v1, v2, "Equality")
    ELSE <<>>   \* Null, EmptyString, EmptyRange, and (_, _)

Tagged_SomeEmpty(entry, diffs) ==
    Some([i \in 1..Len(diffs) |-> [diff |-> diffs[i]] @@ entry])

\* `Some(diffs.into_iter().map(|d| XDifference { .., diff: d }).collect())`,
\* or None for an empty `diffs`; `entry` is the difference less its `diff` field
Tagged(entry, diffs) ==
    IF diffs = <<>> THEN None
    ELSE Some([i \in 1..Len(diffs) |-> [diff |-> diffs[i]] @@ entry])

\* `if !xs.is_empty() { diffs.push(variant(xs)) }`
Nested(variant, xs) ==
    IF xs = <<>> THEN <<>> ELSE <<[type |-> variant, diffs |-> xs]>>

\* impl Diff for CDE
CDE_diff(c1, c2) ==
    Tagged([code |-> c1.code],
           variant_diff(c1.value, c2.value, "Variant")
           \o PayloadCompare(c1.value, c2.value))

RightOnly_Never(m1, k) == FALSE
RightOnly_Always(m1, k) == TRUE

\* second loop of diff_cdes: `match c1.get(k) { None => push Missing(None, Some(v)), .. }`
RightOnly(m1, k) == k \notin DOMAIN m1

\* first loop of diff_cdes, at key k of c1
cdes_left(c1, c2, k) ==
    IF k \notin DOMAIN c2
    THEN <<[code |-> k, diff |-> Missing(Some(c1[k]), None)]>>
    ELSE OptSeq(CDE_diff(c1[k], c2[k]))

\* second loop of diff_cdes, at key k of c2
cdes_right(c1, c2, k) ==
    IF RightOnly(c1, k)
    THEN <<[code |-> k, diff |-> Missing(None, Some(c2[k]))]>>
    ELSE <<>>

cdes_loops(c1, c2, k1, k2) ==
    Flatten([i \in 1..Len(k1) |-> cdes_left(c1, c2, k1[i])])
    \o Flatten([i \in 1..Len(k2) |-> cdes_right(c1, c2, k2[i])])

\* fn diff_cdes, nested in Section::diff
diff_cdes(c1, c2) == OptVec(cdes_loops(c1, c2, iter(c1), iter(c2)))

\* `match diff_cdes(c1, c2) { None => {}, Some(d) => diffs.push(CDEs(d)) }`
CDEsEntry(c1, c2) == Nested("CDEs", OptSeq(diff_cdes(c1, c2)))

\* v1.iter().zip(v2.iter()): the positions both lists have
ZipLen(v1, v2) == Min(Len(v1), Len(v2))

CdesVariantCompare_CountChecked(v1, v2) ==
    IF v1.tag = "Single" /\ v2.tag = "Single"
        THEN CDEsEntry(v1.map, v2.map)
    ELSE IF v1.tag = "Multiple" /\ v2.tag = "Multiple"
        THEN eq_diff(Len(v1.maps) # Len(v2.maps), Len(v1.maps), Len(v2.maps), "Instances")
             \o Flatten([i \in 1..ZipLen(v1.maps, v2.maps) |->
                            CDEsEntry(v1.maps[i], v2.maps[i])])
    ELSE <<>>

\* the `match (&self.cdes, &comp.cdes)` of Section::diff
CdesVariantCompare(v1, v2) ==
    IF v1.tag = "Single" /\ v2.tag = "Single"
        THEN CDEsEntry(v1.map, v2.map)
    ELSE IF v1.tag = "Multiple" /\ v2.tag = "Multiple"
        THEN Flatten([i \in 1..ZipLen(v1.maps, v2.maps) |->
                        CDEsEntry(v1.maps[i], v2.maps[i])])
    ELSE <<>>

\* impl Diff for Section
Section_diff(s1, s2) ==
    Tagged([code |-> s1.code],
           eq_diff(s1.code # s2.code, s1.code, s2.code, "Code")
           \o eq_diff(s1.allow_multiple # s2.allow_multiple,
                      s1.allow_multiple, s2.allow_multiple, "AllowMultiple")
           \o variant_diff(s1.cdes, s2.cdes, "Variant")
           \o CdesVariantCompare(s1.cdes, s2.cdes))

sections_left(m1, m2, k) ==
    IF k \notin DOMAIN m2
    THEN <<[code |-> k, diff |-> Missing(Some(m1[k]), None)]>>
    ELSE OptSeq(Section_diff(m1[k], m2[k]))

sections_right(m1, m2, k) ==
    IF k \notin DOMAIN m1
    THEN <<[code |-> k, diff |-> Missing(None, Some(m2[k]))]>>
    ELSE <<>>

\* the two loops of Form::diff over self.sections and comp.sections
section_diffs(m1, m2, k1, k2) ==
    Flatten([i \in 1..Len(k1) |-> sections_left(m1, m2, k1[i])])
    \o Flatten([i \in 1..Len(k2) |-> sections_right(m1, m2, k2[i])])

\* impl Diff for Form
Form_diff(f1, f2) ==
    Tagged([name |-> f1.name],
           eq_diff(f1.name # f2.name, f1.name, f2.name, "Name")
           \o Nested("Sections",
                     section_diffs(f1.sections, f2.sections,
                                   iter(f1.sections), iter(f2.sections))))

proto_context_Variant(d) == {d.variant.tag}

\* ClinicalDatum::proto_context
proto_context(d) == DOMAIN d.forms

forms_left(m1, m2, k) ==
    IF k \notin DOMAIN m2
    THEN <<[name |-> k, diff |-> Missing(Some(m1[k]), None)]>>
    ELSE OptSeq(Form_diff(m1[k], m2[k]))

forms_right(m1, m2, k) ==
    IF k \notin DOMAIN m1
    THEN <<[name |-> k, diff |-> Missing(None, Some(m2[k]))]>>
    ELSE <<>>

\* the two loops of ClinicalDatum::diff over self.forms and comp.forms
form_diffs(m1, m2, k1, k2) ==
    Flatten([i \in 1..Len(k1) |-> forms_left(m1, m2, k1[i])])
    \o Flatten([i \in 1..Len(k2) |-> forms_right(m1, m2, k2[i])])

\* impl Diff for ClinicalDatum
ClinicalDatum_diff(d1, d2) ==
    Tagged([proto_context |-> DOMAIN d1.forms],
           eq_diff(d1.patient # d2.patient, d1.patient, d2.patient, "Patient")
           \o variant_diff(d1.variant, d2.variant, "Variant")
           \o Nested("Forms",
                     form_diffs(d1.forms, d2.forms, iter(d1.forms), iter(d2.forms))))

RECURSIVE Insert(_, _)
Insert(x, s) ==
    IF s = <<>> THEN <<x>>
    ELSE IF x <= Head(s) THEN <<x>> \o s
    ELSE <<Head(s)>> \o Insert(x, Tail(s))

RECURSIVE Sorted(_)
Sorted(s) == IF s = <<>> THEN <<>> ELSE Insert(Head(s), Sorted(Tail(s)))

IdsOf(m, ks) == Sorted([i \in 1..Len(ks) |-> m[ks[i]].id])

\* self.clinical_data.values().map(|k| k.id).sorted(): the ids, ascending
SliceIds(sl) == IdsOf(sl.clinical_data, iter(sl.clinical_data))

data_left(m1, m2, k) ==
    IF k \notin DOMAIN m2
    THEN <<[proto_context |-> proto_context(m1[k]),
            diff |-> Missing(Some(m1[k]), None)]>>
    ELSE OptSeq(ClinicalDatum_diff(m1[k], m2[k]))

data_right(m1, m2, k) ==
    IF k \notin DOMAIN m1
    THEN <<[proto_context |-> proto_context(m2[k]),
            diff |-> Missing(None, Some(m2[k]))]>>
    ELSE <<>>

\* the two loops of PatientSlice::diff over the two clinical_data maps
clinical_data_diffs(m1, m2, k1, k2) ==
    Flatten([i \in 1..Len(k1) |-> data_left(m1, m2, k1[i])])
    \o Flatten([i \in 1..Len(k2) |-> data_right(m1, m2, k2[i])])

\* impl Diff for PatientSlice
PatientSlice_diff(p1, p2) ==
    Tagged([patient |-> p1.patient, ids |-> SliceIds(p1)],
           eq_diff(p1.patient # p2.patient, p1.patient, p2.patient, "Patient")
           \o Nested("ClinicalData",
                     clinical_data_diffs(p1.clinical_data, p2.clinical_data,
                                         iter(p1.clinical_data), iter(p2.clinical_data))))

\* PatientSlice::from
PatientSlice_from(patient) == [patient |-> patient, clinical_data |-> <<>>]

\* PatientSlice::can_add
can_add(sl, d) == proto_context(d) \notin DOMAIN sl.clinical_data /\ d.patient = sl.patient

\* PatientSlice::add (HashMap::insert replaces an entry under the same key)
add(sl, d) ==
    [sl EXCEPT !.clinical_data =
        [k \in DOMAIN sl.clinical_data \cup {proto_context(d)} |->
            IF k = proto_context(d) THEN d ELSE sl.clinical_data[k]]]

-----------------------------------------------------------------------------
(* The values the diff engine is run on.  Every map is keyed the way the  *)
(* builder keys it: a CDE under its code, a Section under its code, a     *)
(* Form under its name, a ClinicalDatum under its proto_context.          *)

MaxInstances == 2       \* instances of a Multiple section
MaxSliceRecords == 2    \* records folded into one PatientSlice

Null == [tag |-> "Null"]
EmptyString == [tag |-> "EmptyString"]
EmptyRange == [tag |-> "EmptyRange"]
Bool(b) == [tag |-> "Bool", b |-> b]
String(s) == [tag |-> "String", s |-> s]
Number(n) == [tag |-> "Number", n |-> n]
Range(r) == [tag |-> "Range", r |-> r]
File(name, id) == [tag |-> "File", file_name |-> name, django_file_id |-> id]

Codes == {"c", "d"}
Numbers == {1000, 1009, 1010, 1020}

CDEValues ==
    {Null, EmptyString, EmptyRange}
    \cup {Bool(b) : b \in BOOLEAN}
    \cup {String(s) : s \in {"a", "b"}}
    \cup {Number(n) : n \in Numbers}
    \cup {Range(r) : r \in (SUBSET {"", "a", "b"}) \ {{}}}
    \cup {File(f, i) : f \in {"x", "y"}, i \in {0, 1}}

CDEs == {[code |-> k, value |-> v] : k \in Codes, v \in CDEValues}

\* the CDE maps over key set D with values in V
MapsOn(D, V) == {[k \in D |-> [code |-> k, value |-> f[k]]] : f \in [D -> V]}
CDEMaps(Cs, V) == UNION {MapsOn(D, V) : D \in SUBSET Cs}

SeqsUpTo(S, n) == UNION {[1..k -> S] : k \in 0..n}

Single(m) == [tag |-> "Single", map |-> m]
Multiple(ms) == [tag |-> "Multiple", maps |-> ms]

\* get_sections builds Single exactly when allow_multiple is false
MkSection(code, cdes) ==
    [code |-> code, allow_multiple |-> (cdes.tag = "Multiple"), cdes |-> cdes]

\* the values a Single map of the model holds under code k
SingleValues(k) ==
    IF k = "c" THEN {Number(1000), Number(1020), String("a")} ELSE {Number(1000)}

SingleMaps ==
    UNION {{[k \in D |-> [code |-> k, value |-> f[k]]] :
                f \in {g \in [D -> SingleValues("c")] : \A k \in D : g[k] \in SingleValues(k)}} :
            D \in SUBSET {"b", "c", "d"}}

SingleVariants == {Single(m) : m \in SingleMaps}
MultipleVariants ==
    {Multiple(ms) : ms \in SeqsUpTo(CDEMaps({"c"}, {Number(1000), String("a")}), MaxInstances)}

Sections == {MkSection(k, v) : k \in {"s", "t"}, v \in SingleVariants \cup MultipleVariants}

\* the sections a Form of the model holds under code k
FormSections(k) ==
    IF k = "s"
    THEN {x \in Sections :
            /\ x.code = "s"
            /\ \/ /\ x.cdes.tag = "Single"
                  /\ x.cdes.map \in MapsOn({"c"}, {Number(1000), Number(1020)})
               \/ /\ x.cdes.tag = "Multiple"
                  /\ x.cdes.maps # <<>>
                  /\ \A i \in 1..Len(x.cdes.maps) :
                        x.cdes.maps[i] \in MapsOn({"c"}, {Number(1000)})}
    ELSE {x \in Sections : x.code = k /\ x.cdes = Single(<<>>)}

SectionMaps ==
    UNION {{f \in [D -> Sections] : \A k \in D : f[k] \in FormSections(k)} :
            D \in SUBSET {"s", "t"}}

Forms == {[name |-> n, sections |-> sm] : n \in {"f", "g"}, sm \in SectionMaps}

\* the forms a ClinicalDatum of the model holds under name n
DatumForms(n) ==
    IF n = "f"
    THEN {x \in Forms :
            /\ x.name = "f"
            /\ DOMAIN x.sections = {"s"}
            /\ x.sections["s"].cdes.tag = "Multiple"}
    ELSE {x \in Forms : x.name = n /\ x.sections = <<>>}

FormMaps ==
    UNION {{f \in [D -> Forms] : \A n \in D : f[n] \in DatumForms(n)} :
            D \in SUBSET {"f", "g"}}

History == [tag |-> "History"]
CDEsVariant == [tag |-> "CDEs"]

ClinicalData ==
    {[id |-> i, patient |-> pv[1], variant |-> pv[2], forms |-> fm] :
        i \in {1, 2},
        pv \in {<<1, CDEsVariant>>, <<1, History>>, <<2, CDEsVariant>>},
        fm \in FormMaps}

SliceData == {x \in ClinicalData : x.id = 1 /\ x.variant = CDEsVariant}

\* PatientSlice::from followed by at most n add calls, each guarded by can_add
RECURSIVE SlicesUpTo(_)
SlicesUpTo(n) ==
    IF n = 0 THEN {PatientSlice_from(p) : p \in {1, 2}}
    ELSE LET prev == SlicesUpTo(n - 1)
         IN  prev \cup {add(q[1], q[2]) :
                            q \in {r \in prev \X SliceData : can_add(r[1], r[2])}}

PatientSlices == SlicesUpTo(MaxSliceRecords)

Levels == {"CDE", "Section", "Form", "ClinicalDatum", "PatientSlice"}

Universe(lv) ==
    CASE lv = "CDE" -> CDEs
      [] lv = "Section" -> Sections
      [] lv = "Form" -> Forms
      [] lv = "ClinicalDatum" -> ClinicalData
      [] lv = "PatientSlice" -> PatientSlices

-----------------------------------------------------------------------------
(* SpecDiff: two same-typed values are drawn, self.diff(comp) is computed, *)
(* then comp.diff(self).                                                   *)

\* the parts a specification does not exercise stay as they are here
DiffIdle ==
    /\ level = "CDE"
    /\ lhs = [tag |-> "None"]
    /\ rhs = [tag |-> "None"]
    /\ iterOrder = 0
    /\ diffPc = "idle"
    /\ result = [tag |-> "None"]
    /\ swapped = [tag |-> "None"]

ReaderIdle ==
    /\ lines = <<>>
    /\ pos = 0
    /\ partial = <<>>
    /\ emitted = <<>>
    /\ rdState = "idle"
    /\ peak = 0

DecodeIdle ==
    /\ decFn = "none"
    /\ decIn = [tag |-> "None"]
    /\ decPc = "idle"
    /\ decOut = [tag |-> "None"]

InitDiff ==
    /\ ReaderIdle
    /\ DecodeIdle
    /\ PipeIdle
    /\ level \in Levels
    /\ lhs \in Universe(level)
    /\ rhs \in Universe(level)
    /\ iterOrder \in (IF level = "CDE" THEN {0} ELSE {0, 1})
    /\ diffPc = "start"
    /\ result = None
    /\ swapped = None

\* one call of the level's diff; the second call swaps the operands
Call(lv, diff(_, _)) ==
    /\ level = lv
    /\ \/ /\ diffPc = "start"
          /\ result' = diff(lhs, rhs)
          /\ diffPc' = "diffed"
          /\ UNCHANGED swapped
       \/ /\ diffPc = "diffed"
          /\ swapped' = diff(rhs, lhs)
          /\ diffPc' = "swapped"
          /\ UNCHANGED result
    /\ UNCHANGED <<level, lhs, rhs, iterOrder>>
    /\ UNCHANGED <<readerVars, decodeVars, pipeVars>>

CDEDiff == Call("CDE", CDE_diff)
SectionDiff == Call("Section", Section_diff)
FormDiff == Call("Form", Form_diff)
ClinicalDatumDiff == Call("ClinicalDatum", ClinicalDatum_diff)
PatientSliceDiff == Call("PatientSlice", PatientSlice_diff)

NextDiff ==
    \/ CDEDiff
    \/ SectionDiff
    \/ FormDiff
    \/ ClinicalDatumDiff
    \/ PatientSliceDiff

SpecDiff == InitDiff /\ [][NextDiff]_vars


-----------------------------------------------------------------------------
(* Properties of the diff engine, checked under SpecDiff *)

Diffed == diffPc \in {"diffed", "swapped"}

\* equality of two CDE values under the rules of the specification
ValueEq(v1, v2) ==
    /\ v1.tag = v2.tag
    /\ IF v1.tag = "Number" THEN Abs(v1.n - v2.n) <= Tolerance ELSE v1 = v2

CDEMapEq(m1, m2) ==
    /\ DOMAIN m1 = DOMAIN m2
    /\ \A k \in DOMAIN m1 : ValueEq(m1[k].value, m2[k].value)

CdesEq(v1, v2) ==
    /\ v1.tag = v2.tag
    /\ IF v1.tag = "Single" THEN CDEMapEq(v1.map, v2.map)
       ELSE /\ Len(v1.maps) = Len(v2.maps)
            /\ \A i \in 1..Len(v1.maps) : CDEMapEq(v1.maps[i], v2.maps[i])

SectionEq(s1, s2) ==
    /\ s1.code = s2.code
    /\ s1.allow_multiple = s2.allow_multiple
    /\ CdesEq(s1.cdes, s2.cdes)

FormEq(f1, f2) ==
    /\ f1.name = f2.name
    /\ DOMAIN f1.sections = DOMAIN f2.sections
    /\ \A k \in DOMAIN f1.sections : SectionEq(f1.sections[k], f2.sections[k])

\* the record id is not compared
DatumEq(d1, d2) ==
    /\ d1.patient = d2.patient
    /\ d1.variant = d2.variant
    /\ DOMAIN d1.forms = DOMAIN d2.forms
    /\ \A k \in DOMAIN d1.forms : FormEq(d1.forms[k], d2.forms[k])

SliceEq(p1, p2) ==
    /\ p1.patient = p2.patient
    /\ DOMAIN p1.clinical_data = DOMAIN p2.clinical_data
    /\ \A k \in DOMAIN p1.clinical_data :
            DatumEq(p1.clinical_data[k], p2.clinical_data[k])

RecEq(lv, a, b) ==
    CASE lv = "CDE" -> ValueEq(a.value, b.value)
      [] lv = "Section" -> SectionEq(a, b)
      [] lv = "Form" -> FormEq(a, b)
      [] lv = "ClinicalDatum" -> DatumEq(a, b)
      [] lv = "PatientSlice" -> SliceEq(a, b)

\* C1: at every entity level, diff returns None exactly when the two values
\* are recursively equal (Number within 0.01, record id ignored), and a
\* non-empty difference list otherwise; in particular two Sections whose
\* Multiple instance lists are not equal never diff to None.
C1_NoneIffEqual ==
    Diffed =>
        /\ (result = None) <=> RecEq(level, lhs, rhs)
        /\ result # None => result.tag = "Some" /\ result.val # <<>>

\* C2: reflexivity: at every entity level, and for every CDE variant,
\* x.diff(x) returns None.
C2_Reflexive ==
    (Diffed /\ lhs = rhs) => result = None /\ (diffPc = "swapped" => swapped = None)

C2_Witness ==
    /\ level = "PatientSlice"
    /\ diffPc = "swapped"
    /\ lhs = rhs
    /\ \E k \in DOMAIN lhs.clinical_data : "f" \in DOMAIN lhs.clinical_data[k].forms

\* the key an entry of a difference list is filed under
KeyOf(e) ==
    IF "code" \in DOMAIN e THEN e.code
    ELSE IF "name" \in DOMAIN e THEN e.name
    ELSE IF "proto_context" \in DOMAIN e THEN e.proto_context
    ELSE e.patient

\* the key paths of the Missing entries of difference list ds whose `side`
\* ("left" or "right") is Some, at every depth below `path`
RECURSIVE MissingIn(_, _, _)
MissingIn(ds, path, side) ==
    UNION {IF ds[i].diff.type = "Missing"
           THEN (IF ds[i].diff[side].tag = "Some" THEN {Append(path, KeyOf(ds[i]))} ELSE {})
           ELSE IF "diffs" \in DOMAIN ds[i].diff
           THEN MissingIn(ds[i].diff.diffs, Append(path, KeyOf(ds[i])), side)
           ELSE {} : i \in 1..Len(ds)}

\* the same for a diff result; the top-level entries carry self's own code,
\* name or patient, which is no map key and is left out of the paths
MissingKeys(res, side) ==
    UNION {IF "diffs" \in DOMAIN res.val[i].diff
           THEN MissingIn(res.val[i].diff.diffs, <<>>, side)
           ELSE {} : i \in 1..Len(OptSeq(res))}

\* C3: swap symmetry of missing keys: a key is reported Missing(Some, None) by
\* diff(A, B) exactly when it is reported Missing(None, Some) by diff(B, A),
\* and the other way round, for CDE maps, section maps, form maps and the
\* record maps of slices.
C3_SwapSymmetry ==
    diffPc = "swapped" =>
        /\ MissingKeys(result, "left") = MissingKeys(swapped, "right")
        /\ MissingKeys(result, "right") = MissingKeys(swapped, "left")

C3_Witness ==
    /\ diffPc = "swapped"
    /\ level = "Form"
    /\ MissingKeys(result, "left") # {}
    /\ MissingKeys(result, "right") # {}
    /\ MissingKeys(swapped, "left") = MissingKeys(result, "right")

\* the entries of difference list ds filed under key k, in order
Under(ds, k) == LET T(e) == KeyOf(e) = k IN SelectSeq(ds, T)

\* ds is the mapping diff of A against B, with ElemDiff the elements' diff and
\* `field` the name of the field an entry's key is stored in
MapDiffExact(ds, A, B, ElemDiff(_, _), field) ==
    /\ \A i \in 1..Len(ds) : KeyOf(ds[i]) \in DOMAIN A \cup DOMAIN B
    /\ \A k \in DOMAIN A \ DOMAIN B :
            Under(ds, k) = <<[diff |-> Missing(Some(A[k]), None)] @@ (field :> k)>>
    /\ \A k \in DOMAIN B \ DOMAIN A :
            Under(ds, k) = <<[diff |-> Missing(None, Some(B[k]))] @@ (field :> k)>>
    /\ \A k \in DOMAIN A \cap DOMAIN B :
            Under(ds, k) = OptSeq(ElemDiff(A[k], B[k]))

\* the nested difference list of the entries of type `variant` of a result
NestedOf(res, variant) ==
    Flatten([i \in 1..Len(OptSeq(res)) |->
                IF res.val[i].diff.type = variant THEN res.val[i].diff.diffs ELSE <<>>])

\* C4: mapping diff: the result holds exactly one Missing(left-only) entry for
\* each key of A not in B, exactly one Missing(right-only) entry for each key
\* of B not in A, and for each key of both exactly the entries of that
\* element's own diff (none when the elements are equal).
C4_MappingDiff ==
    Diffed =>
        CASE level = "Section" /\ lhs.cdes.tag = "Single" /\ rhs.cdes.tag = "Single" ->
                MapDiffExact(NestedOf(result, "CDEs"), lhs.cdes.map, rhs.cdes.map,
                             CDE_diff, "code")
          [] level = "Form" ->
                MapDiffExact(NestedOf(result, "Sections"), lhs.sections, rhs.sections,
                             Section_diff, "code")
          [] level = "ClinicalDatum" ->
                MapDiffExact(NestedOf(result, "Forms"), lhs.forms, rhs.forms,
                             Form_diff, "name")
          [] level = "PatientSlice" ->
                MapDiffExact(NestedOf(result, "ClinicalData"),
                             lhs.clinical_data, rhs.clinical_data,
                             ClinicalDatum_diff, "proto_context")
          [] OTHER -> TRUE

\* {b, c} against {c, d} with equal c: exactly Missing(left, b), Missing(right, d)
C4_Witness ==
    /\ level = "Section"
    /\ diffPc = "diffed"
    /\ lhs.cdes.tag = "Single" /\ rhs.cdes.tag = "Single"
    /\ DOMAIN lhs.cdes.map = {"b", "c"}
    /\ DOMAIN rhs.cdes.map = {"c", "d"}
    /\ lhs.cdes.map["c"] = rhs.cdes.map["c"]
    /\ Len(NestedOf(result, "CDEs")) = 2

\* every difference record (the `diff` field of an entry) of a difference
\* list, at every depth
RECURSIVE DiffsIn(_)
DiffsIn(ds) ==
    UNION {{ds[i].diff} \cup (IF "diffs" \in DOMAIN ds[i].diff
                              THEN DiffsIn(ds[i].diff.diffs) ELSE {}) :
            i \in 1..Len(ds)}

\* C5: two CDEs holding values of different variants diff to exactly one
\* difference, of type Variant; an Equality difference is only ever produced
\* for two values of the same variant.
C5_TagMismatch ==
    Diffed =>
        /\ (level = "CDE" /\ lhs.value.tag # rhs.value.tag) =>
                result = Some(<<[code |-> lhs.code,
                                 diff |-> [type |-> "Variant",
                                           left |-> lhs.value, right |-> rhs.value]]>>)
        /\ \A d \in DiffsIn(OptSeq(result)) :
                d.type = "Equality" => d.left.tag = d.right.tag

C5_Witness ==
    /\ level = "CDE"
    /\ diffPc = "diffed"
    /\ lhs.value.tag = "Number"
    /\ rhs.value.tag = "String"
    /\ Len(result.val) = 1

-----------------------------------------------------------------------------
(* streaming.rs, registry_data.rs, migrated_registry.rs:                   *)
(* read_array_file_to_values.  The three copies differ only in their last  *)
(* adaptor (filter_map(|v| v) or flatten()), which both drop the None the  *)
(* scan closure yields for a line that completes no element.               *)

MaxElems == 2   \* elements in an input file
MaxBody == 2    \* member lines an element can have

Opener == "    {"
IsTerminator(l) == l \in {"    }", "    },"}

\* the member lines an element may hold: one followed by a further member
\* ends in a comma, the last one does not
MoreLines == {"        \"pk\": 1,"}
LastLines == {"        \"pk\": 1", "        \"model\": \"m\""}

\* from_str::<Value>(&partial.join("\n")): the text parses when it is one
\* object, an opening brace, a well-separated member list, a closing brace;
\* the Value is the object of those members
ParseOk(buf) ==
    /\ Len(buf) >= 2
    /\ buf[1] = Opener
    /\ buf[Len(buf)] = "}"
    /\ \A i \in 2..(Len(buf) - 2) : buf[i] \in MoreLines
    /\ Len(buf) > 2 => buf[Len(buf) - 1] \in LastLines

from_str(buf) == [tag |-> "Object", members |-> SubSeq(buf, 2, Len(buf) - 1)]

Max(a, b) == IF a >= b THEN a ELSE b

Reading == rdState = "reading" /\ pos < Len(lines)

Line == lines[pos + 1]

ReaderFrame == UNCHANGED <<lines, diffVars, decodeVars, pipeVars>>

ReadOpen_Buffered ==
    /\ Reading
    /\ Line = "["
    /\ pos' = pos + 1
    /\ partial' = Append(partial, Line)
    /\ peak' = Max(peak, Len(partial) + 1)
    /\ UNCHANGED <<emitted, rdState>>
    /\ ReaderFrame

\* "[" => Some(None)
ReadOpen ==
    /\ Reading
    /\ Line = "["
    /\ pos' = pos + 1
    /\ UNCHANGED <<partial, emitted, rdState, peak>>
    /\ ReaderFrame

\* "]" => None: the scan ends, and with it the iterator (both drivers stop
\* polling at the first None)
ReadClose ==
    /\ Reading
    /\ Line = "]"
    /\ pos' = pos + 1
    /\ rdState' = "ended"
    /\ UNCHANGED <<partial, emitted, peak>>
    /\ ReaderFrame

ReadTerminator_NoClear ==
    /\ Reading
    /\ IsTerminator(Line)
    /\ ParseOk(Append(partial, "}"))
    /\ pos' = pos + 1
    /\ emitted' = Append(emitted, from_str(Append(partial, "}")))
    /\ partial' = Append(partial, "}")
    /\ peak' = Max(peak, Len(partial) + 1)
    /\ UNCHANGED rdState
    /\ ReaderFrame

\* "    }" | "    }," => push "}", parse the buffer, clear it, yield the value
ReadTerminator ==
    /\ Reading
    /\ IsTerminator(Line)
    /\ ParseOk(Append(partial, "}"))
    /\ pos' = pos + 1
    /\ emitted' = Append(emitted, from_str(Append(partial, "}")))
    /\ partial' = <<>>
    /\ peak' = Max(peak, Len(partial) + 1)
    /\ UNCHANGED rdState
    /\ ReaderFrame

\* the same arm when from_str fails: .expect("Failed parsing JSON array entry")
ReadTerminatorPanic ==
    /\ Reading
    /\ IsTerminator(Line)
    /\ ~ParseOk(Append(partial, "}"))
    /\ pos' = pos + 1
    /\ partial' = Append(partial, "}")
    /\ peak' = Max(peak, Len(partial) + 1)
    /\ rdState' = "panicked"
    /\ UNCHANGED emitted
    /\ ReaderFrame

\* l => push l, Some(None)
ReadOther ==
    /\ Reading
    /\ Line \notin {"[", "]"}
    /\ ~IsTerminator(Line)
    /\ pos' = pos + 1
    /\ partial' = Append(partial, Line)
    /\ peak' = Max(peak, Len(partial) + 1)
    /\ UNCHANGED <<emitted, rdState>>
    /\ ReaderFrame

\* reader.lines() is exhausted
ReadEof ==
    /\ rdState = "reading"
    /\ pos = Len(lines)
    /\ rdState' = "ended"
    /\ UNCHANGED <<pos, partial, emitted, peak>>
    /\ ReaderFrame

\* ---- the input files

\* the bodies an element can have: no member, or up to MaxBody of them
Bodies ==
    {<<>>} \cup {ms \o <<l>> : ms \in SeqsUpTo(MoreLines, MaxBody - 1), l \in LastLines}

\* the lines of the elements with bodies bs, from position i on; every
\* element but the last ends in "    },"
RECURSIVE ElementLines(_, _)
ElementLines(bs, i) ==
    IF i > Len(bs) THEN <<>>
    ELSE <<Opener>> \o bs[i] \o <<IF i < Len(bs) THEN "    }," ELSE "    }">>
         \o ElementLines(bs, i + 1)

\* a file in the export convention
ExportFile(bs) == <<"[">> \o ElementLines(bs, 1) \o <<"]">>

\* the convention, and three ways of leaving it: an element after the "]",
\* a first element without its opening brace, a file without its "]"
Deviate(f, how) ==
    CASE how = "none" -> f
      [] how = "trailing" -> f \o <<Opener, "    }">>
      [] how = "unopened" -> <<"[">> \o SubSeq(f, 3, Len(f))
      [] how = "unclosed" -> SubSeq(f, 1, Len(f) - 1)

InputFiles ==
    {Deviate(ExportFile(bs), how) :
        bs \in SeqsUpTo(Bodies, MaxElems),
        how \in {"none", "trailing", "unopened", "unclosed"}}

InitReader ==
    /\ DiffIdle
    /\ DecodeIdle
    /\ PipeIdle
    /\ lines \in InputFiles
    /\ pos = 0
    /\ partial = <<>>
    /\ emitted = <<>>
    /\ rdState = "reading"
    /\ peak = 0

NextReader ==
    \/ ReadOpen
    \/ ReadClose
    \/ ReadTerminator
    \/ ReadTerminatorPanic
    \/ ReadOther
    \/ ReadEof

SpecReader == InitReader /\ [][NextReader]_vars

-----------------------------------------------------------------------------
(* Properties of the incremental array reader.                             *)

\* the index in the file of the terminator line of element i
RECURSIVE EndOf(_, _)
EndOf(bs, i) == IF i = 0 THEN 1 ELSE EndOf(bs, i - 1) + Len(bs[i]) + 2

\* the elements whose lines have all been consumed
Completed(bs) == {i \in 1..Len(bs) : EndOf(bs, i) <= pos}

\* the value of an element with body b
ElementValue(b) == [tag |-> "Object", members |-> b]

\* the index of the last terminator line among the first n lines, 0 if none
RECURSIVE LastTerminator(_)
LastTerminator(n) ==
    IF n = 0 THEN 0
    ELSE IF IsTerminator(lines[n]) THEN n ELSE LastTerminator(n - 1)

ReaderRunning == rdState \in {"reading", "ended", "panicked"}

\* what C7 says of a file of the export convention with elements bs
EmitsElements(bs) ==
    /\ rdState # "panicked"
    /\ Len(emitted) = Cardinality(Completed(bs))
    /\ \A i \in 1..Len(emitted) : emitted[i] = ElementValue(bs[i])
    /\ rdState = "ended" => Len(emitted) = Len(bs)

\* C7: for a file of the export convention with N elements the reader emits
\* exactly N values, the i-th being the parse of the lines of element i, in
\* input order, each as soon as its terminator line is read; "[" and "]" are
\* never in the buffer; the buffer is empty right after every emission; and
\* no line after a "]" is read, so nothing is emitted after it.
C7_ReaderEmission ==
    ReaderRunning =>
        /\ \A bs \in SeqsUpTo(Bodies, MaxElems) :
               lines = ExportFile(bs) => EmitsElements(bs)
        /\ \A i \in 1..Len(partial) : partial[i] \notin {"[", "]"}
        /\ (pos > 0 /\ IsTerminator(lines[pos]) /\ rdState # "panicked")
               => (partial = <<>> /\ emitted # <<>>)
        /\ \A i \in 1..(pos - 1) : lines[i] # "]"
        /\ (pos > 0 /\ lines[pos] = "]") => rdState = "ended"

\* a conforming file of two different elements has been read to its end
C7_Witness ==
    /\ rdState = "ended"
    /\ pos = Len(lines)
    /\ lines[Len(lines)] = "]"
    /\ Len(emitted) = 2
    /\ emitted[1] # emitted[2]
    /\ emitted[1].members # <<>>

\* the line counts of the elements of a file
ElementSizes(bs) == {Len(bs[i]) + 2 : i \in 1..Len(bs)}

\* what C8 says of a file of the export convention with elements bs
BufferWithinElement(bs) ==
    /\ partial # <<>> =>
           \E i \in 1..Len(bs) :
               /\ EndOf(bs, i - 1) <= pos
               /\ pos <= EndOf(bs, i)
               /\ Len(partial) <= Len(bs[i]) + 2
    /\ \A L \in ElementSizes(bs) :
           ElementSizes(bs) = {L} => peak <= L
    /\ \E L \in ElementSizes(bs) \cup {0} : peak <= L

\* C8: the buffer never holds more lines than the element being read has (in
\* any file, no more than the lines read since the last terminator), so for
\* a file of N elements of L lines each the peak buffer length is at most L
\* whatever N is.
C8_BoundedBuffer ==
    ReaderRunning =>
        /\ \A bs \in SeqsUpTo(Bodies, MaxElems) :
               lines = ExportFile(bs) => BufferWithinElement(bs)
        /\ Len(partial) <= pos - LastTerminator(IF rdState = "panicked" THEN pos - 1 ELSE pos)
        /\ peak <= pos

\* two elements of the largest size have gone through the buffer
C8_Witness ==
    /\ rdState = "ended"
    /\ lines[Len(lines)] = "]"
    /\ Len(emitted) >= 2
    /\ Len(emitted[1].members) = Len(emitted[2].members)
    /\ peak = Len(emitted[1].members) + 2
    /\ peak >= 4

-----------------------------------------------------------------------------
(* clinical_data.rs: the record model builder, ClinicalDatum::from and the  *)
(* functions under it.                                                      *)
(*                                                                          *)
(* A serde_json::Value is a tagged record.  A Number keeps the three forms  *)
(* serde_json stores (PosInt, NegInt, Float) and its value in thousandths.  *)
(* A Result is Ok(v) or Err(msg); a panic (an unwrap of None) is the third  *)
(* outcome Panic.                                                           *)

JNull == [tag |-> "Null"]
JBool(b) == [tag |-> "Bool", b |-> b]
JNumber(kind, n) == [tag |-> "Number", kind |-> kind, n |-> n]
JString(s) == [tag |-> "String", s |-> s]
JArray(a) == [tag |-> "Array", items |-> a]
JObject(o) == [tag |-> "Object", map |-> o]

PosInt(i) == JNumber("PosInt", i * 1000)
NegInt(i) == JNumber("NegInt", i * 1000)

Ok(v) == [tag |-> "Ok", val |-> v]
Err(msg) == [tag |-> "Err", msg |-> msg]
Panic == [tag |-> "Panic"]

\* Value::get(key) and Map::get(key)
get(v, key) ==
    IF v.tag = "Object" /\ key \in DOMAIN v.map THEN Some(v.map[key]) ELSE None

\* Option<&Value> matching Some(Value::String(_)) / Some(Value::Number(_))
IsSome(o, tag) == o.tag = "Some" /\ o.val.tag = tag

\* Number::as_u64: Some only for a non-negative integer
as_u64(n) == IF n.kind = "PosInt" THEN Some(n.n \div 1000) ELSE None

\* Value::as_i64: Some only for an integer
as_i64(v) ==
    IF v.tag = "Number" /\ v.kind \in {"PosInt", "NegInt"} THEN Some(v.n \div 1000) ELSE None

\* `as u32`: the low 32 bits, taken as two 16-bit halves (the integers of
\* the model stay below 2^31)
as_u32(i) == ((i \div 65536) % 65536) * 65536 + (i % 65536)

\* the outcome of collecting an iterator of Result items: the first item that
\* is not Ok ends the iteration
FirstFailure(rs) ==
    rs[CHOOSE i \in 1..Len(rs) : rs[i].tag # "Ok" /\ \A j \in 1..(i - 1) : rs[j].tag = "Ok"]

\* collect::<Result<HashMap<_, _>, _>>(): the pairs are inserted in order,
\* a later pair replacing an earlier one under the same key
collect_map(rs) ==
    IF \E i \in 1..Len(rs) : rs[i].tag # "Ok" THEN FirstFailure(rs)
    ELSE Ok([k \in {rs[i].val[1] : i \in 1..Len(rs)} |->
                rs[CHOOSE i \in 1..Len(rs) :
                      /\ rs[i].val[1] = k
                      /\ \A j \in (i + 1)..Len(rs) : rs[j].val[1] # k].val[2]])

\* collect::<Result<Vec<_>, _>>()
collect_vec(rs) ==
    IF \E i \in 1..Len(rs) : rs[i].tag # "Ok" THEN FirstFailure(rs)
    ELSE Ok([i \in 1..Len(rs) |-> rs[i].val])

collect_set_NonEmpty(rs) ==
    IF \E i \in 1..Len(rs) : rs[i].tag # "Ok" THEN FirstFailure(rs)
    ELSE Ok({rs[i].val : i \in 1..Len(rs)} \ {""})

\* collect::<Result<HashSet<String>, _>>()
collect_set(rs) ==
    IF \E i \in 1..Len(rs) : rs[i].tag # "Ok" THEN FirstFailure(rs)
    ELSE Ok({rs[i].val : i \in 1..Len(rs)})

\* the Object arm of get_cde_value
file_value(file_name, django_file_id, gridfs_file_id) ==
    IF IsSome(file_name, "String") /\ IsSome(django_file_id, "Number")
    THEN IF as_u64(django_file_id.val) = None
         THEN Panic
         ELSE Ok(Some(File(file_name.val.s, as_u32(as_u64(django_file_id.val).val))))
    ELSE IF IsSome(file_name, "String") /\ IsSome(gridfs_file_id, "String")
         THEN Ok(Some(File(file_name.val.s, 0)))
         ELSE Ok(None)

\* the Array arm of get_cde_value, once the members are collected
range_value(range) ==
    IF range.tag # "Ok" THEN range
    ELSE IF range.val = {} THEN Ok(Some(EmptyRange)) ELSE Ok(Some(Range(range.val)))

\* s.as_str().ok_or("Invalid range cde value")
range_member(s) == IF s.tag = "String" THEN Ok(s.s) ELSE Err("Invalid range cde value")

get_cde_value(value) ==
    CASE value.tag = "Bool" -> Ok(Some(Bool(value.b)))
      [] value.tag = "Object" ->
            file_value(get(value, "file_name"), get(value, "django_file_id"),
                       get(value, "gridfs_file_id"))
      [] value.tag = "Null" -> Ok(Some(Null))
      [] value.tag = "Number" -> Ok(Some(Number(value.n)))
      [] value.tag = "String" ->
            IF value.s = "" THEN Ok(Some(EmptyString)) ELSE Ok(Some(String(value.s)))
      [] value.tag = "Array" ->
            range_value(collect_set([i \in 1..Len(value.items) |-> range_member(value.items[i])]))

\* Self::get_cde_value(value)?.ok_or("Invalid cde value")?, then the pair
cde_pair(code, value) ==
    IF value.tag # "Ok" THEN value
    ELSE IF value.val = None THEN Err("Invalid cde value")
    ELSE Ok(<<code, [code |-> code, value |-> value.val.val]>>)

\* the closure get_cdes maps over the list
cde_entry(data) ==
    IF data.tag # "Object" THEN Err("Invalid cde")
    ELSE IF get(data, "code") = None THEN Err("Missing cde code")
    ELSE IF get(data, "code").val.tag # "String" THEN Err("Invalid cde code")
    ELSE IF get(data, "value") = None THEN Err("Missing cde value")
    ELSE cde_pair(get(data, "code").val.s, get_cde_value(get(data, "value").val))

\* the comparison of the list's length with the map's that ends get_forms,
\* get_sections and get_cdes
len_check(n, m, msg) ==
    IF m.tag # "Ok" THEN m
    ELSE IF Cardinality(DOMAIN m.val) # n THEN Err(msg) ELSE m

get_cdes_NoDupCheck(cdes) ==
    collect_map([i \in 1..Len(cdes) |-> cde_entry(cdes[i])])

get_cdes(cdes) ==
    len_check(Len(cdes), collect_map([i \in 1..Len(cdes) |-> cde_entry(cdes[i])]),
              "List of CDEs contains duplicates")

\* one instance list of a Multiple section
instance_cdes(l) ==
    IF l.tag # "Array" THEN Err("Invalid section cdes list") ELSE get_cdes(l.items)

\* wraps the decoded lists in their CDESVariant and builds the pair
section_pair(code, allow_multiple, cdes) ==
    IF cdes.tag # "Ok" THEN cdes
    ELSE Ok(<<code, [code |-> code, allow_multiple |-> allow_multiple,
                     cdes |-> IF allow_multiple THEN Multiple(cdes.val) ELSE Single(cdes.val)]>>)

\* match allow_multiple { false => Single(get_cdes), true => Multiple(..) }
section_cdes(code, allow_multiple, cdes) ==
    section_pair(code, allow_multiple,
        IF allow_multiple
        THEN collect_vec([i \in 1..Len(cdes) |-> instance_cdes(cdes[i])])
        ELSE get_cdes(cdes))

\* the closure get_sections maps over the list
section_entry(data) ==
    IF data.tag # "Object" THEN Err("Invalid section")
    ELSE IF get(data, "code") = None THEN Err("Missing section code")
    ELSE IF get(data, "code").val.tag # "String" THEN Err("Invalid section code")
    ELSE IF get(data, "allow_multiple") = None THEN Err("Missing section allow_multiple")
    ELSE IF get(data, "allow_multiple").val.tag # "Bool" THEN Err("Invalid section allow_multiple")
    ELSE IF get(data, "cdes") = None THEN Err("Missing section cdes")
    ELSE IF get(data, "cdes").val.tag # "Array" THEN Err("Invalid section cdes")
    ELSE section_cdes(get(data, "code").val.s, get(data, "allow_multiple").val.b,
                      get(data, "cdes").val.items)

get_sections(sections) ==
    len_check(Len(sections),
              collect_map([i \in 1..Len(sections) |-> section_entry(sections[i])]),
              "List of sections contains duplicates")

form_pair(name, sections) ==
    IF sections.tag # "Ok" THEN sections
    ELSE Ok(<<name, [name |-> name, sections |-> sections.val]>>)

\* the closure get_forms maps over the list
form_entry(data) ==
    IF data.tag # "Object" THEN Err("Invalid form")
    ELSE IF get(data, "name") = None THEN Err("Missing form name")
    ELSE IF get(data, "name").val.tag # "String" THEN Err("Invalid form name")
    ELSE IF get(data, "sections") = None THEN Err("Missing form sections")
    ELSE IF get(data, "sections").val.tag # "Array" THEN Err("Invalid form sections")
    ELSE form_pair(get(data, "name").val.s, get_sections(get(data, "sections").val.items))

get_forms(forms) ==
    len_check(Len(forms), collect_map([i \in 1..Len(forms) |-> form_entry(forms[i])]),
              "List of forms contains duplicates")

\* Ok(Some(ClinicalDatum { id, patient, variant, forms }))
datum_of(id, patient, variant, forms) ==
    IF forms.tag # "Ok" THEN forms
    ELSE Ok(Some([id |-> id, patient |-> patient, variant |-> variant, forms |-> forms.val]))

\* the tail of from, once the variant is known: where the forms live
from_forms(id, patient, variant, forms) ==
    IF forms = None THEN Err("Missing forms")
    ELSE IF forms.val.tag # "Array" THEN Err("Invalid forms")
    ELSE datum_of(id, patient, variant, get_forms(forms.val.items))

from_variant(id, patient, collection, data) ==
    CASE collection = "cdes" -> from_forms(id, patient, CDEsVariant, get(data, "forms"))
      [] collection = "history" ->
            IF get(data, "record") = None THEN Err("Missing record")
            ELSE from_forms(id, patient, History, get(get(data, "record").val, "forms"))
      [] OTHER -> Ok(None)

from_fields(map, fields, data) ==
    IF get(map, "pk") = None THEN Err("Missing PK")
    ELSE IF as_i64(get(map, "pk").val) = None THEN Err("Invalid PK")
    ELSE IF get(fields, "django_id") = None THEN Err("Missing patient")
    ELSE IF as_i64(get(fields, "django_id").val) = None THEN Err("Invalid patient")
    ELSE IF get(fields, "collection") = None THEN Err("Missing collection")
    ELSE IF get(fields, "collection").val.tag # "String" THEN Err("Invalid collection")
    ELSE from_variant(as_u32(as_i64(get(map, "pk").val).val),
                      as_u32(as_i64(get(fields, "django_id").val).val),
                      get(fields, "collection").val.s, data)

\* ClinicalDatum::from
ClinicalDatum_from(datum) ==
    IF datum.tag # "Object" THEN Err("Not an object")
    ELSE IF get(datum, "fields") = None THEN Err("Missing fields")
    ELSE IF get(get(datum, "fields").val, "data") = None THEN Err("Missing data")
    ELSE from_fields(datum, get(datum, "fields").val, get(get(datum, "fields").val, "data").val)

\* ---- the values and rows the builder is given

MaxList == 2    \* entries in a list of forms, sections, instances or CDEs
MaxArr == 2     \* members of an array-valued CDE

\* a list of one entry of All, or of up to n entries of Few
ListsOver(All, Few, n) == {<<x>> : x \in All} \cup SeqsUpTo(Few, n)

Obj2(k1, v1, k2, v2) == JObject([k \in {k1, k2} |-> IF k = k1 THEN v1 ELSE v2])
Obj3(k1, v1, k2, v2, k3, v3) ==
    JObject([k \in {k1, k2, k3} |-> IF k = k1 THEN v1 ELSE IF k = k2 THEN v2 ELSE v3])

\* objects with any of the three keys of a file value
FileObjects ==
    {JObject(f) :
        f \in UNION {[D -> {JString("f"), PosInt(7), NegInt(-1), JNumber("Float", 1500), JNull}] :
                        D \in SUBSET {"file_name", "django_file_id", "gridfs_file_id"}}}

ArrayMembers == {JString(""), JString("a"), JString("b"), PosInt(1), JNull}

Scalars ==
    {JNull, JBool(TRUE), JBool(FALSE), PosInt(0), PosInt(1), NegInt(-1),
     JNumber("Float", 1500), JString(""), JString("a"), JString("b")}

\* every value get_cde_value is tried on
JValues ==
    Scalars \cup FileObjects \cup {JArray(a) : a \in SeqsUpTo(ArrayMembers, MaxArr)}

JCde(code, value) == Obj2("code", JString(code), "value", value)

\* the file object whose id Number::as_u64 rejects
BadIdFile == Obj2("file_name", JString("f"), "django_file_id", NegInt(-1))

\* a file object of the new export, and one of the old export
DjangoFile == Obj2("file_name", JString("f"), "django_file_id", PosInt(7))
GridfsFile == Obj2("file_name", JString("f"), "gridfs_file_id", JString("g"))

CdeItems ==
    {JCde("c", PosInt(1)), JCde("c", JString("a")), JCde("d", JString("")),
     JString("c"), JCde("d", JObject(<<>>)), JCde("d", BadIdFile),
     JCde("d", DjangoFile), JCde("d", GridfsFile), JCde("d", JArray(<<JString("a"), JNull>>))}

CdeLists == SeqsUpTo(CdeItems, MaxList)

\* the instance lists of a Multiple section
InstanceItems ==
    {JArray(<<>>), JArray(<<JCde("c", PosInt(1))>>),
     JArray(<<JCde("c", PosInt(1)), JCde("c", JString("a"))>>),
     JArray(<<JCde("c", PosInt(1)), JCde("d", JString(""))>>),
     JCde("c", PosInt(1))}

JSection(code, allow_multiple, cdes) ==
    Obj3("code", JString(code), "allow_multiple", JBool(allow_multiple), "cdes", JArray(cdes))

SectionItems ==
    {JSection("s", FALSE, l) : l \in CdeLists}
    \cup {JSection("s", TRUE, l) : l \in SeqsUpTo(InstanceItems, MaxList)}
    \cup {JSection("t", FALSE, <<>>), JString("s"),
          Obj2("code", JString("s"), "cdes", JArray(<<>>))}

\* the sections that are paired in a list
SectionPairItems ==
    {JSection("s", FALSE, <<>>), JSection("s", TRUE, <<>>), JSection("t", FALSE, <<>>),
     JSection("t", FALSE, <<JCde("c", PosInt(1)), JCde("c", PosInt(1))>>)}

SectionLists == ListsOver(SectionItems, SectionPairItems, MaxList)

JForm(name, sections) == Obj2("name", JString(name), "sections", JArray(sections))

FormItems ==
    {JForm("f", l) : l \in SectionLists} \cup {JForm("g", <<>>), JString("f")}

\* the forms that are paired in a list
FormPairItems ==
    {JForm("f", <<>>), JForm("f", <<JSection("s", FALSE, <<>>)>>), JForm("g", <<>>),
     JForm("g", <<JSection("s", FALSE, <<>>), JSection("s", TRUE, <<>>)>>)}

FormLists == ListsOver(FormItems, FormPairItems, MaxList)

\* where a "cdes" row and a "history" row keep their forms
DataCdes(forms) == JObject([k \in {"forms"} |-> forms])
DataHistory(forms) == JObject([k \in {"record"} |-> DataCdes(forms)])

JRow(pk, django_id, collection, data) ==
    Obj2("pk", pk, "fields",
         Obj3("django_id", django_id, "collection", collection, "data", data))

\* rows of the export, well formed down to the list of forms
ExportRows ==
    {JRow(PosInt(1), PosInt(2), JString(c), d) :
        c \in {"cdes", "history", "other"},
        d \in {DataCdes(JArray(l)) : l \in FormLists}
              \cup {DataHistory(JArray(l)) : l \in FormLists}}

\* rows that fail before the list of forms is reached
BrokenRows ==
    {JString("row"), JObject(<<>>),
     Obj2("pk", PosInt(1), "fields", JObject(<<>>)),
     JRow(JString("1"), PosInt(2), JString("cdes"), DataCdes(JArray(<<>>))),
     JRow(PosInt(1), JNumber("Float", 1500), JString("cdes"), DataCdes(JArray(<<>>))),
     JRow(PosInt(1), PosInt(2), JNull, DataCdes(JArray(<<>>))),
     JRow(PosInt(1), PosInt(2), JString("cdes"), JNull),
     JRow(PosInt(1), PosInt(2), JString("history"), JObject(<<>>)),
     JRow(PosInt(1), PosInt(2), JString("cdes"), DataCdes(JNull)),
     Obj2("fields", Obj2("collection", JString("cdes"), "data", JNull), "x", JNull),
     Obj2("pk", PosInt(1), "fields", Obj2("collection", JString("cdes"), "data", JNull)),
     Obj2("pk", PosInt(1), "fields", Obj2("django_id", PosInt(2), "data", JNull)),
     Obj2("pk", PosInt(1), "fields",
          Obj2("django_id", PosInt(2), "collection", JString("other"))),
     JRow(PosInt(1), PosInt(2), JString("other"), JNull),
     Obj2("pk", PosInt(1), "fields",
          Obj2("django_id", PosInt(2), "collection", JString("cdes")))}

InitDecode ==
    /\ DiffIdle
    /\ ReaderIdle
    /\ PipeIdle
    /\ \/ decFn = "from" /\ decIn \in ExportRows \cup BrokenRows
       \/ decFn = "get_cde_value" /\ decIn \in JValues
    /\ decPc = "start"
    /\ decOut = None

\* ClinicalDatum::from(&value)
From ==
    /\ decFn = "from"
    /\ decPc = "start"
    /\ decOut' = ClinicalDatum_from(decIn)
    /\ decPc' = "done"
    /\ UNCHANGED <<decFn, decIn, diffVars, readerVars, pipeVars>>

\* Self::get_cde_value(value)
GetCdeValue ==
    /\ decFn = "get_cde_value"
    /\ decPc = "start"
    /\ decOut' = get_cde_value(decIn)
    /\ decPc' = "done"
    /\ UNCHANGED <<decFn, decIn, diffVars, readerVars, pipeVars>>

NextDecode ==
    \/ From
    \/ GetCdeValue

SpecDecode == InitDecode /\ [][NextDecode]_vars

-----------------------------------------------------------------------------
(* Properties of the record model builder.                                 *)

Decoded(fn) == decFn = fn /\ decPc = "done"

\* the member under key of an optional value
Field(o, key) == IF o.tag = "Some" THEN get(o.val, key) ELSE None

\* the entries of an optional array, none when it is no array
ArrayItems(o) == IF IsSome(o, "Array") THEN o.val.items ELSE <<>>

RowData(row) == Field(Field(Some(row), "fields"), "data")

\* the list of forms of a row whose collection is recognised
RowForms(row) ==
    CASE Field(Field(Some(row), "fields"), "collection") = Some(JString("cdes")) ->
            ArrayItems(Field(RowData(row), "forms"))
      [] Field(Field(Some(row), "fields"), "collection") = Some(JString("history")) ->
            ArrayItems(Field(Field(RowData(row), "record"), "forms"))
      [] OTHER -> <<>>

\* two entries of the list carry the same string under key
DupIn(list, key) ==
    \E i, j \in 1..Len(list) :
        /\ i < j
        /\ IsSome(get(list[i], key), "String")
        /\ get(list[i], key) = get(list[j], key)

SectionListsOf(fs) == {ArrayItems(get(fs[i], "sections")) : i \in 1..Len(fs)}

SectionsOf(fs) == UNION {{l[j] : j \in 1..Len(l)} : l \in SectionListsOf(fs)}

\* the CDE lists of a section: its one list, or its instance lists
CdeListsOfSection(sec) ==
    CASE get(sec, "allow_multiple") = Some(JBool(FALSE)) -> {ArrayItems(get(sec, "cdes"))}
      [] get(sec, "allow_multiple") = Some(JBool(TRUE)) ->
            {ArrayItems(Some(ArrayItems(get(sec, "cdes"))[k])) :
                k \in 1..Len(ArrayItems(get(sec, "cdes")))}
      [] OTHER -> {}

CdeListsOf(fs) == UNION {CdeListsOfSection(sec) : sec \in SectionsOf(fs)}

DupForms(fs) == DupIn(fs, "name")
DupSections(fs) == \E l \in SectionListsOf(fs) : DupIn(l, "code")
DupCdes(fs) == \E l \in CdeListsOf(fs) : DupIn(l, "code")

\* a file object whose numeric id is no unsigned integer: the one value on
\* which get_cde_value panics instead of returning
RejectedId(v) ==
    /\ IsSome(get(v, "file_name"), "String")
    /\ IsSome(get(v, "django_file_id"), "Number")
    /\ get(v, "django_file_id").val.kind # "PosInt"

HasRejectedId(fs) ==
    \E l \in CdeListsOf(fs) : \E i \in 1..Len(l) :
        get(l[i], "value") # None /\ RejectedId(get(l[i], "value").val)

FatalOnDuplicates(fs) ==
    (DupForms(fs) \/ DupSections(fs) \/ DupCdes(fs)) =>
        /\ decOut.tag # "Ok"
        /\ decOut.tag = "Err" \/ HasRejectedId(fs)
        /\ (DupForms(fs) /\ \A i \in 1..Len(fs) : form_entry(fs[i]).tag = "Ok")
               => decOut = Err("List of forms contains duplicates")

StringArray(a) == \A i \in 1..Len(a) : a[i].tag = "String"
MembersOf(a) == {a[i].s : i \in 1..Len(a)}

\* C10: get_cde_value maps "" to EmptyString and every other string to
\* String; it maps an array to EmptyRange exactly when the array has no
\* member, and a non-empty array of strings, [""] included, to the Range of
\* the set of its members, so that arrays with the same members in another
\* order (or number) decode to the same value.
C10_EmptyCollapsing ==
    Decoded("get_cde_value") =>
        /\ decIn.tag = "String" =>
              /\ decIn.s = "" => decOut = Ok(Some(EmptyString))
              /\ decIn.s # "" => decOut = Ok(Some(String(decIn.s)))
        /\ decIn.tag = "Array" =>
              /\ decOut = Ok(Some(EmptyRange)) <=> decIn.items = <<>>
              /\ (decIn.items # <<>> /\ StringArray(decIn.items)) =>
                    /\ decOut = Ok(Some(Range(MembersOf(decIn.items))))
                    /\ \A b \in SeqsUpTo(ArrayMembers, MaxArr) :
                          (StringArray(b) /\ MembersOf(b) = MembersOf(decIn.items))
                              => get_cde_value(JArray(b)) = decOut

\* the array [""] has been decoded
C10_Witness ==
    /\ Decoded("get_cde_value")
    /\ decIn = JArray(<<JString("")>>)
    /\ decOut = Ok(Some(Range({""})))

\* a string file name together with a numeric file id
NumericFile(v) ==
    IsSome(get(v, "file_name"), "String") /\ IsSome(get(v, "django_file_id"), "Number")

\* the shapes C11 names: an object without them, an array with a member that
\* is no string
OtherShape(v) ==
    \/ v.tag = "Object" /\ ~NumericFile(v)
    \/ v.tag = "Array" /\ ~StringArray(v.items)

IsFileRef(out) == out.tag = "Ok" /\ out.val # None /\ out.val.val.tag = "File"

\* the values of the CDE entries of a forms list
CdeValuesOf(fs) ==
    UNION {{get(l[i], "value").val : i \in {j \in 1..Len(l) : get(l[j], "value") # None}} :
              l \in CdeListsOf(fs)}

\* C11: an object decodes to a File exactly when it carries a string file
\* name and a numeric file id; an object without them, or an array with a
\* member that is no string, becomes no CDE value at all, and a row holding
\* one makes ClinicalDatum::from return an error.
C11_ObjectDecoding ==
    /\ (Decoded("get_cde_value") /\ decIn.tag = "Object") =>
          /\ IsFileRef(decOut) <=> NumericFile(decIn)
          /\ ~NumericFile(decIn) => decOut = Ok(None)
    /\ (Decoded("get_cde_value") /\ decIn.tag = "Array" /\ ~StringArray(decIn.items)) =>
          decOut.tag = "Err"
    /\ (Decoded("from") /\ \E v \in CdeValuesOf(RowForms(decIn)) : OtherShape(v)) =>
          decOut.tag = "Err"

\* an export row (pk and fields.django_id integers) whose collection is a
\* string other than "cdes" and "history"
UnrecognisedRow(row) ==
    /\ row.tag = "Object"
    /\ Field(Some(row), "pk") # None
    /\ as_i64(Field(Some(row), "pk").val) # None
    /\ Field(Field(Some(row), "fields"), "django_id") # None
    /\ as_i64(Field(Field(Some(row), "fields"), "django_id").val) # None
    /\ IsSome(Field(Field(Some(row), "fields"), "collection"), "String")
    /\ Field(Field(Some(row), "fields"), "collection").val.s \notin {"cdes", "history"}

\* C12: a row whose collection is a string other than "cdes" and "history"
\* makes ClinicalDatum::from return Ok(None), never an error, with or without
\* a fields.data payload.
C12_SkipNotError ==
    (Decoded("from") /\ UnrecognisedRow(decIn)) => decOut = Ok(None)

-----------------------------------------------------------------------------
(* registry_data.rs (and, without cdes_only, migrated_registry.rs): the    *)
(* rows of an export are decoded one at a time by                          *)
(* map_values_to_clinical_data, and RegistryData::next assembles the       *)
(* records into patient slices through a Peekable.                         *)
(*                                                                         *)
(* its[s] holds the rows of side s, how many of them the iterator under    *)
(* the Peekable has taken (pos), and the Peekable's slot (peeked): None    *)
(* when empty, Some(item) after a peek, the item being None at the end of  *)
(* the rows.  validate() only prints and is left out.                      *)

\* the item the filter_map closures make of a decoded row, from row pos on
RECURSIVE pull(_, _, _)
RECURSIVE pull_row(_, _, _, _)
pull_row(rows, p, cdes_only, r) ==
    IF r.tag # "Ok" THEN [tag |-> "Panic", pos |-> p]
    ELSE IF r.val = None THEN pull(rows, p, cdes_only)
    ELSE IF cdes_only /\ r.val.val.variant = History THEN pull(rows, p, cdes_only)
    ELSE [tag |-> "Ok", item |-> r.val, pos |-> p]

\* Iterator::next of map_values_to_clinical_data
pull(rows, p, cdes_only) ==
    IF p >= Len(rows) THEN [tag |-> "Ok", item |-> None, pos |-> Len(rows)]
    ELSE pull_row(rows, p + 1, cdes_only, ClinicalDatum_from(rows[p + 1]))

\* what Peekable::next and Peekable::peek see: the slot if it is filled, the
\* next item of the iterator otherwise
Fetch(it) ==
    IF it.peeked # None THEN [tag |-> "Ok", item |-> it.peeked.val, pos |-> it.pos]
    ELSE pull(it.rows, it.pos, it.cdes_only)

\* the Peekable after next() took the item f, and after peek() looked at it
Taken(it, f) == [it EXCEPT !.pos = f.pos, !.peeked = None]
Peeked(it, f) == [it EXCEPT !.pos = f.pos, !.peeked = Some(f.item)]

\* next() returns v to its caller: a loop that collects the slices until
\* None, or zip_longest, which polls the old side, then the new one
Return(v) ==
    /\ ret' = [ret EXCEPT ![cur] = v]
    /\ yielded' = IF v = None THEN yielded
                  ELSE [yielded EXCEPT ![cur] = Append(@, v.val)]
    /\ slice' = None
    /\ IF caller = "collect"
       THEN cur' = cur /\ pc' = IF v = None THEN "ended" ELSE "first"
       ELSE IF cur = "old" THEN cur' = "new" /\ pc' = "first"
       ELSE cur' = "old" /\ pc' = "match"

AsmFrame == UNCHANGED <<caller, wiring, zipVars, diffVars, readerVars, decodeVars>>

\* match self.iterator.next() { None => None, .. }
AsmEnd ==
    /\ wiring = "registry_data"
    /\ pc = "first"
    /\ LET f == Fetch(its[cur])
       IN  /\ f.tag = "Ok"
           /\ f.item = None
           /\ its' = [its EXCEPT ![cur] = Taken(@, f)]
    /\ Return(None)
    /\ UNCHANGED adds
    /\ AsmFrame

\* Some(first_cd) => PatientSlice::from(first_cd.patient), slice.add(first_cd)
AsmFirst ==
    /\ wiring = "registry_data"
    /\ pc = "first"
    /\ LET f == Fetch(its[cur])
       IN  /\ f.tag = "Ok"
           /\ f.item # None
           /\ its' = [its EXCEPT ![cur] = Taken(@, f)]
           /\ slice' = Some(add(PatientSlice_from(f.item.val.patient), f.item.val))
    /\ adds' = 1
    /\ pc' = "loop"
    /\ UNCHANGED <<cur, ret, yielded>>
    /\ AsmFrame

AsmAdd_Unguarded ==
    /\ wiring = "registry_data"
    /\ pc = "loop"
    /\ LET f == Fetch(its[cur])
       IN  /\ f.tag = "Ok"
           /\ f.item # None
           /\ f.item.val.patient = slice.val.patient
           /\ its' = [its EXCEPT ![cur] = Taken(@, f)]
           /\ slice' = Some(add(slice.val, f.item.val))
    /\ adds' = adds + 1
    /\ UNCHANGED <<cur, pc, ret, yielded>>
    /\ AsmFrame

\* peek() is Some(cd) and can_add(cd): slice.add(self.iterator.next().unwrap())
AsmAdd ==
    /\ wiring = "registry_data"
    /\ pc = "loop"
    /\ LET f == Fetch(its[cur])
       IN  /\ f.tag = "Ok"
           /\ f.item # None
           /\ can_add(slice.val, f.item.val)
           /\ its' = [its EXCEPT ![cur] = Taken(@, f)]
           /\ slice' = Some(add(slice.val, f.item.val))
    /\ adds' = adds + 1
    /\ UNCHANGED <<cur, pc, ret, yielded>>
    /\ AsmFrame

AsmBreak_Consuming ==
    /\ wiring = "registry_data"
    /\ pc = "loop"
    /\ LET f == Fetch(its[cur])
       IN  /\ f.tag = "Ok"
           /\ IF f.item = None THEN TRUE ELSE ~can_add(slice.val, f.item.val)
           /\ its' = [its EXCEPT ![cur] = Taken(@, f)]
    /\ Return(slice)
    /\ UNCHANGED adds
    /\ AsmFrame

\* peek() is None, or Some(cd) that cannot be added: break, Some(slice)
AsmBreak ==
    /\ wiring = "registry_data"
    /\ pc = "loop"
    /\ LET f == Fetch(its[cur])
       IN  /\ f.tag = "Ok"
           /\ IF f.item = None THEN TRUE ELSE ~can_add(slice.val, f.item.val)
           /\ its' = [its EXCEPT ![cur] = Peeked(@, f)]
    /\ Return(slice)
    /\ UNCHANGED adds
    /\ AsmFrame

\* the row next() or peek() has to decode is in error: panic!()
AsmPanic ==
    /\ wiring = "registry_data"
    /\ pc \in {"first", "loop"}
    /\ LET f == Fetch(its[cur])
       IN  /\ f.tag = "Panic"
           /\ its' = [its EXCEPT ![cur].pos = f.pos]
    /\ pc' = "panicked"
    /\ UNCHANGED <<cur, slice, adds, ret, yielded>>
    /\ AsmFrame

\* ---- the rows the assembler is fed

MaxRecords == 3     \* rows of an export given to one assembler

OneCde(v) == <<JCde("c", v)>>

FormsOfKind(kind) ==
    CASE kind \in {"A", "C", "H"} -> <<JForm("f", <<JSection("s", FALSE, OneCde(PosInt(1)))>>)>>
      [] kind \in {"A2", "C2"} -> <<JForm("f", <<JSection("s", FALSE, OneCde(JString("a")))>>)>>
      [] kind = "B" -> <<JForm("g", <<>>)>>
      [] OTHER -> <<>>

\* row number i of an export: its pk is i
MkRow(i, kind) ==
    CASE kind \in {"A", "A2", "B"} ->
            JRow(PosInt(i), PosInt(1), JString("cdes"), DataCdes(JArray(FormsOfKind(kind))))
      [] kind \in {"C", "C2"} ->
            JRow(PosInt(i), PosInt(2), JString("cdes"), DataCdes(JArray(FormsOfKind(kind))))
      [] kind = "H" ->
            JRow(PosInt(i), PosInt(1), JString("history"), DataHistory(JArray(FormsOfKind(kind))))
      [] kind = "skip" ->
            JRow(PosInt(i), PosInt(1), JString("other"), JObject(<<>>))
      [] kind = "bad" ->
            JRow(PosInt(i), PosInt(1), JString("cdes"), JObject(<<>>))

RowsOfKinds(ks) == [i \in 1..Len(ks) |-> MkRow(i, ks[i])]

\* RegistryData::from(reader, definition, cdes_only)
NewIt(rows, cdes_only) ==
    [rows |-> rows, cdes_only |-> cdes_only, pos |-> 0, peeked |-> None]

AssemblerKinds == {"A", "B", "C", "H", "skip", "bad"}

InitAssembler ==
    /\ DiffIdle
    /\ ReaderIdle
    /\ DecodeIdle
    /\ \E ks \in SeqsUpTo(AssemblerKinds, MaxRecords), co \in BOOLEAN :
          its = [s \in Sides |-> IF s = "old" THEN NewIt(RowsOfKinds(ks), co) ELSE None]
    /\ caller = "collect"
    /\ wiring = "registry_data"
    /\ cur = "old"
    /\ pc = "first"
    /\ slice = None
    /\ adds = 0
    /\ ret = [s \in Sides |-> None]
    /\ yielded = [s \in Sides |-> <<>>]
    /\ skip_input = FALSE
    /\ total = 0
    /\ pending = 0
    /\ log = <<>>

NextAssembler ==
    \/ AsmEnd
    \/ AsmFirst
    \/ AsmAdd
    \/ AsmBreak
    \/ AsmPanic

SpecAssembler == InitAssembler /\ [][NextAssembler]_vars

-----------------------------------------------------------------------------
(* Properties of the slice assembler of registry_data.rs.                  *)

Collecting == caller = "collect" /\ wiring = "registry_data"

\* the positions of the rows that reach the Peekable as records (the pk of
\* a row of the model is its position, so a record's id is its position)
RecordRows(it) ==
    {i \in 1..Len(it.rows) :
        /\ ClinicalDatum_from(it.rows[i]).tag = "Ok"
        /\ ClinicalDatum_from(it.rows[i]).val # None
        /\ ~(it.cdes_only /\ ClinicalDatum_from(it.rows[i]).val.val.variant = History)}

RecordAt(it, i) == ClinicalDatum_from(it.rows[i]).val.val

\* the ids of the records a slice holds
HeldIds(sl) == {sl.clinical_data[k].id : k \in DOMAIN sl.clinical_data}

MinOf(S) == CHOOSE x \in S : \A y \in S : x <= y
MaxOf(S) == CHOOSE x \in S : \A y \in S : x >= y

\* the records that follow every record of the slice
After(R, sl) == {i \in R : i > MaxOf(HeldIds(sl))}

\* slice sl is a run of the records R: contiguous, each record stored whole
\* under its own fingerprint, of one patient
IsRun(it, R, sl) ==
    /\ HeldIds(sl) # {}
    /\ Cardinality(HeldIds(sl)) = Cardinality(DOMAIN sl.clinical_data)
    /\ HeldIds(sl) = {i \in R : MinOf(HeldIds(sl)) <= i /\ i <= MaxOf(HeldIds(sl))}
    /\ \A i \in HeldIds(sl) :
          /\ RecordAt(it, i).patient = sl.patient
          /\ DOMAIN RecordAt(it, i).forms \in DOMAIN sl.clinical_data
          /\ sl.clinical_data[DOMAIN RecordAt(it, i).forms] = RecordAt(it, i)

\* slice sl ends where it has to: nothing follows, or the record that follows
\* has another patient or a fingerprint the slice already has
EndsAtBoundary(it, R, sl) ==
    After(R, sl) # {} =>
        \/ RecordAt(it, MinOf(After(R, sl))).patient # sl.patient
        \/ DOMAIN RecordAt(it, MinOf(After(R, sl))).forms \in DOMAIN sl.clinical_data

\* the record that follows slice sl is the one the Peekable holds
HoldsNext(it, R, sl) ==
    it.peeked = Some(IF After(R, sl) = {} THEN None
                     ELSE Some(RecordAt(it, MinOf(After(R, sl)))))

SlicesPartition(it, R, Y) ==
    /\ \A k \in 1..Len(Y) : IsRun(it, R, Y[k]) /\ EndsAtBoundary(it, R, Y[k])
    /\ Len(Y) > 0 => MinOf(HeldIds(Y[1])) = MinOf(R)
    /\ \A k \in 1..(Len(Y) - 1) :
          /\ After(R, Y[k]) # {}
          /\ MinOf(HeldIds(Y[k + 1])) = MinOf(After(R, Y[k]))
    /\ (pc = "first" /\ Len(Y) > 0) => HoldsNext(it, R, Y[Len(Y)])
    /\ pc = "ended" => UNION {HeldIds(Y[k]) : k \in 1..Len(Y)} = R

\* C17: the slices RegistryData::next yields are consecutive runs of the
\* record sequence, in input order, each record in exactly one of them; a
\* slice ends exactly before the first record of another patient or of a
\* fingerprint it already holds (or at the end of the input), and that record
\* stays in the Peekable and opens the next slice.
C17_SliceAssembly ==
    Collecting => SlicesPartition(its["old"], RecordRows(its["old"]), yielded["old"])

\* two slices of one patient, the first of two records, cut at a repeated
\* fingerprint
C17_Witness ==
    /\ Collecting
    /\ pc = "ended"
    /\ Len(yielded["old"]) = 2
    /\ Cardinality(DOMAIN yielded["old"][1].clinical_data) = 2
    /\ yielded["old"][1].patient = yielded["old"][2].patient

SliceInvariant(sl) ==
    \A k \in DOMAIN sl.clinical_data :
        /\ proto_context(sl.clinical_data[k]) = k
        /\ sl.clinical_data[k].patient = sl.patient

\* C19: every slice RegistryData::next builds or yields keeps each record
\* under its own fingerprint and holds records of the slice's patient only,
\* and holds as many records as it received add calls: none was overwritten.
C19_SliceInvariant ==
    Collecting =>
        /\ slice # None =>
              /\ SliceInvariant(slice.val)
              /\ Cardinality(DOMAIN slice.val.clinical_data) = adds
        /\ \A k \in 1..Len(yielded["old"]) : SliceInvariant(yielded["old"][k])
        /\ (pc \in {"first", "ended"} /\ ret["old"] # None) =>
              Cardinality(DOMAIN ret["old"].val.clinical_data) = adds

\* a slice under construction after its second add, a record of the same
\* patient and fingerprint waiting behind it
C19_Witness ==
    /\ Collecting
    /\ pc = "loop"
    /\ adds = 2
    /\ Cardinality(DOMAIN slice.val.clinical_data) = 2
    /\ its["old"].pos < Len(its["old"].rows)

-----------------------------------------------------------------------------
(* streaming.rs: the assembler main.rs wires.  Its Peekable runs over      *)
(* ClinicalDatumWrapper items, one per row, none filtered out.  The        *)
(* wrapper type is not among the sources: a wrapper holds the row's value, *)
(* and clinical_datum() is what ClinicalDatum::from makes of it.           *)

\* ClinicalDatumWrapper::from(value).clinical_datum()
clinical_datum(w) == ClinicalDatum_from(w)

\* map_values_to_clinical_data: one wrapper per row; wrapped[i] is what
\* clinical_datum() gives on the wrapper of row i
NewStream(rows) ==
    [rows |-> rows, cdes_only |-> FALSE, pos |-> 0, peeked |-> None,
     wrapped |-> [i \in DOMAIN rows |-> clinical_datum(rows[i])]]

\* what Peekable::next and Peekable::peek see over the wrappers
FetchWrapper(it) ==
    IF it.peeked # None THEN [tag |-> "Ok", item |-> it.peeked.val, pos |-> it.pos]
    ELSE IF it.pos >= Len(it.rows) THEN [tag |-> "Ok", item |-> None, pos |-> it.pos]
    ELSE [tag |-> "Ok", item |-> Some(it.rows[it.pos + 1]), pos |-> it.pos + 1]

\* cdw.clinical_datum().unwrap() on the wrapper under f, when there is one
Unwrapped(f) == IF f.item = None THEN Panic ELSE its[cur].wrapped[f.pos]

\* match self.clinical_data.next() { None => return None, .. }
StreamEnd ==
    /\ wiring = "streaming"
    /\ pc = "first"
    /\ FetchWrapper(its[cur]).item = None
    /\ its' = [its EXCEPT ![cur] = Taken(@, FetchWrapper(its[cur]))]
    /\ Return(None)
    /\ UNCHANGED adds
    /\ AsmFrame

\* if cd.is_none() { return self.next(); }
StreamSkipFirst ==
    /\ wiring = "streaming"
    /\ pc = "first"
    /\ FetchWrapper(its[cur]).item # None
    /\ Unwrapped(FetchWrapper(its[cur])) = Ok(None)
    /\ its' = [its EXCEPT ![cur] = Taken(@, FetchWrapper(its[cur]))]
    /\ UNCHANGED <<cur, pc, slice, adds, ret, yielded>>
    /\ AsmFrame

\* let mut slice = PatientSlice::from(cd.patient): the record itself is
\* not added
StreamFirst ==
    /\ wiring = "streaming"
    /\ pc = "first"
    /\ FetchWrapper(its[cur]).item # None
    /\ LET cd == Unwrapped(FetchWrapper(its[cur]))
       IN  /\ cd.tag = "Ok"
           /\ cd.val # None
           /\ slice' = Some(PatientSlice_from(cd.val.val.patient))
    /\ its' = [its EXCEPT ![cur] = Taken(@, FetchWrapper(its[cur]))]
    /\ adds' = 0
    /\ pc' = "loop"
    /\ UNCHANGED <<cur, ret, yielded>>
    /\ AsmFrame

\* clinical_datum().unwrap() on a row in error
StreamPanic ==
    /\ wiring = "streaming"
    /\ pc \in {"first", "loop"}
    /\ FetchWrapper(its[cur]).item # None
    /\ Unwrapped(FetchWrapper(its[cur])).tag # "Ok"
    /\ its' = [its EXCEPT ![cur] = Peeked(@, FetchWrapper(its[cur]))]
    /\ pc' = "panicked"
    /\ UNCHANGED <<cur, slice, adds, ret, yielded>>
    /\ AsmFrame

\* match self.clinical_data.peek() { None => return None, .. }: the slice
\* being built is dropped
StreamPeekEnd ==
    /\ wiring = "streaming"
    /\ pc = "loop"
    /\ FetchWrapper(its[cur]).item = None
    /\ its' = [its EXCEPT ![cur] = Peeked(@, FetchWrapper(its[cur]))]
    /\ Return(None)
    /\ UNCHANGED adds
    /\ AsmFrame

\* the peeked wrapper is a skipped row: None => {}, and the loop peeks again
StreamPeekSkip ==
    /\ wiring = "streaming"
    /\ pc = "loop"
    /\ FetchWrapper(its[cur]).item # None
    /\ Unwrapped(FetchWrapper(its[cur])) = Ok(None)
    /\ its' = [its EXCEPT ![cur] = Peeked(@, FetchWrapper(its[cur]))]
    /\ UNCHANGED <<cur, pc, slice, adds, ret, yielded>>
    /\ AsmFrame

\* can_add true => slice.add(self.clinical_data.next().unwrap())
StreamAdd ==
    /\ wiring = "streaming"
    /\ pc = "loop"
    /\ FetchWrapper(its[cur]).item # None
    /\ LET cd == Unwrapped(FetchWrapper(its[cur]))
       IN  /\ cd.tag = "Ok"
           /\ cd.val # None
           /\ can_add(slice.val, cd.val.val)
           /\ slice' = Some(add(slice.val, cd.val.val))
    /\ its' = [its EXCEPT ![cur] = Taken(@, FetchWrapper(its[cur]))]
    /\ adds' = adds + 1
    /\ UNCHANGED <<cur, pc, ret, yielded>>
    /\ AsmFrame

\* can_add false => return Some(slice)
StreamBreak ==
    /\ wiring = "streaming"
    /\ pc = "loop"
    /\ FetchWrapper(its[cur]).item # None
    /\ LET cd == Unwrapped(FetchWrapper(its[cur]))
       IN  /\ cd.tag = "Ok"
           /\ cd.val # None
           /\ ~can_add(slice.val, cd.val.val)
    /\ its' = [its EXCEPT ![cur] = Peeked(@, FetchWrapper(its[cur]))]
    /\ Return(slice)
    /\ UNCHANGED adds
    /\ AsmFrame

StreamingKinds == {"A", "B", "C", "skip", "bad"}

InitStreaming ==
    /\ DiffIdle
    /\ ReaderIdle
    /\ DecodeIdle
    /\ \E ks \in SeqsUpTo(StreamingKinds, MaxRecords) :
          its = [s \in Sides |-> IF s = "old" THEN NewStream(RowsOfKinds(ks)) ELSE None]
    /\ caller = "collect"
    /\ wiring = "streaming"
    /\ cur = "old"
    /\ pc = "first"
    /\ slice = None
    /\ adds = 0
    /\ ret = [s \in Sides |-> None]
    /\ yielded = [s \in Sides |-> <<>>]
    /\ skip_input = FALSE
    /\ total = 0
    /\ pending = 0
    /\ log = <<>>

NextStreaming ==
    \/ StreamEnd
    \/ StreamSkipFirst
    \/ StreamFirst
    \/ StreamPanic
    \/ StreamPeekEnd
    \/ StreamPeekSkip
    \/ StreamAdd
    \/ StreamBreak

SpecStreaming == InitStreaming /\ [][NextStreaming]_vars

\* the rows are all records, their patients in contiguous runs, no
\* fingerprint twice in a run
GroupedRecords(it) ==
    /\ RecordRows(it) = 1..Len(it.rows)
    /\ \A i, j \in 1..Len(it.rows) :
          (i < j /\ RecordAt(it, i).patient = RecordAt(it, j).patient) =>
              /\ \A k \in i..j : RecordAt(it, k).patient = RecordAt(it, i).patient
              /\ DOMAIN RecordAt(it, i).forms # DOMAIN RecordAt(it, j).forms

\* the first rows of the maximal same-patient runs
RunStarts(it) ==
    {i \in 1..Len(it.rows) :
        i = 1 \/ RecordAt(it, i).patient # RecordAt(it, i - 1).patient}

\* C18: for records grouped in contiguous same-patient runs the assembler of
\* streaming.rs, polled to its end, has yielded one slice per maximal run,
\* the last run included, and the slices hold every record, the first of
\* each run included.
C18_OneSlicePerRun ==
    (caller = "collect" /\ wiring = "streaming" /\ pc = "ended"
        /\ GroupedRecords(its["old"])) =>
        /\ Len(yielded["old"]) = Cardinality(RunStarts(its["old"]))
        /\ UNION {HeldIds(yielded["old"][k]) : k \in 1..Len(yielded["old"])}
              = 1..Len(its["old"].rows)

-----------------------------------------------------------------------------
(* main.rs: zip_diff.  zip_longest polls the old iterator, then the new    *)
(* one; map, flatten and sum are lazy, so each pair is diffed, printed and *)
(* put to the gate before the next one is pulled.  prompt_input loops      *)
(* until the answer read is one of the three; the three Prompt actions are *)
(* its returns.                                                            *)

ZipFrame == UNCHANGED <<its, caller, wiring, cur, slice, adds, ret, yielded,
                        diffVars, readerVars, decodeVars>>

\* the number of the pair at hand: the slices the old side has yielded
PairNo == Len(yielded["old"])

\* zip_longest is over: both sides returned None, sum returns the total
ZipEnd ==
    /\ pc = "match"
    /\ ret["old"] = None
    /\ ret["new"] = None
    /\ pc' = "returned"
    /\ UNCHANGED zipVars
    /\ ZipFrame

ZipLeft_Tolerant ==
    /\ pc = "match"
    /\ ret["old"] # None
    /\ ret["new"] = None
    /\ pc' = "returned"
    /\ UNCHANGED zipVars
    /\ ZipFrame

\* EitherOrBoth::Left(_) => panic!("New ran out of slices!")
ZipLeft ==
    /\ pc = "match"
    /\ ret["old"] # None
    /\ ret["new"] = None
    /\ pc' = "panicked"
    /\ UNCHANGED zipVars
    /\ ZipFrame

\* EitherOrBoth::Right(_) => panic!("Old ran out of slices!")
ZipRight ==
    /\ pc = "match"
    /\ ret["old"] = None
    /\ ret["new"] # None
    /\ pc' = "panicked"
    /\ UNCHANGED zipVars
    /\ ZipFrame

\* Both(old, new), old.diff(&new) is None
ZipSame ==
    /\ pc = "match"
    /\ ret["old"] # None
    /\ ret["new"] # None
    /\ PatientSlice_diff(ret["old"].val, ret["new"].val) = None
    /\ pc' = "first"
    /\ UNCHANGED zipVars
    /\ ZipFrame

\* the differences are printed; without skip_input the gate comes next,
\* with it Some(diffs.len()) goes to the sum at once
Printed(n, count) ==
    /\ log' = Append(log, [ev |-> "print", pair |-> n, count |-> count])
    /\ IF skip_input
       THEN total' = total + count /\ pc' = "first" /\ UNCHANGED pending
       ELSE pending' = count /\ pc' = "prompt" /\ UNCHANGED total
    /\ UNCHANGED skip_input

\* Both(old, new), old.diff(&new) is Some(diffs)
ZipDiffer ==
    /\ pc = "match"
    /\ ret["old"] # None
    /\ ret["new"] # None
    /\ PatientSlice_diff(ret["old"].val, ret["new"].val) # None
    /\ Printed(PairNo, Len(PatientSlice_diff(ret["old"].val, ret["new"].val).val))
    /\ ZipFrame

Asked(answer) == log' = Append(log, [ev |-> "prompt", pair |-> PairNo, answer |-> answer])

\* PromptResponse::Yes => {}
PromptYes ==
    /\ pc = "prompt"
    /\ Asked("Yes")
    /\ total' = total + pending
    /\ pc' = "first"
    /\ UNCHANGED <<skip_input, pending>>
    /\ ZipFrame

PromptAll_NoSkip ==
    /\ pc = "prompt"
    /\ Asked("All")
    /\ total' = total + pending
    /\ pc' = "first"
    /\ UNCHANGED <<skip_input, pending>>
    /\ ZipFrame

\* PromptResponse::All => skip_input = true
PromptAll ==
    /\ pc = "prompt"
    /\ Asked("All")
    /\ skip_input' = TRUE
    /\ total' = total + pending
    /\ pc' = "first"
    /\ UNCHANGED pending
    /\ ZipFrame

\* PromptResponse::No => process::exit(0)
PromptNo ==
    /\ pc = "prompt"
    /\ Asked("No")
    /\ pc' = "exited"
    /\ UNCHANGED <<skip_input, total, pending>>
    /\ ZipFrame

MaxRows == 2    \* rows of each of the two exports given to zip_diff

OldKinds == {"A", "B", "C", "skip", "bad"}
NewKinds == {"A", "A2", "B", "C2", "skip", "bad"}

InitDriver ==
    /\ DiffIdle
    /\ ReaderIdle
    /\ DecodeIdle
    /\ wiring \in {"registry_data", "streaming"}
    /\ \E ko \in SeqsUpTo(OldKinds, MaxRows), kn \in SeqsUpTo(NewKinds, MaxRows) :
          its = [s \in Sides |->
                    IF wiring = "streaming"
                    THEN NewStream(RowsOfKinds(IF s = "old" THEN ko ELSE kn))
                    ELSE NewIt(RowsOfKinds(IF s = "old" THEN ko ELSE kn), FALSE)]
    /\ caller = "zip_diff"
    /\ cur = "old"
    /\ pc = "first"
    /\ slice = None
    /\ adds = 0
    /\ ret = [s \in Sides |-> None]
    /\ yielded = [s \in Sides |-> <<>>]
    /\ skip_input = FALSE
    /\ total = 0
    /\ pending = 0
    /\ log = <<>>

NextDriver ==
    \/ NextAssembler
    \/ NextStreaming
    \/ ZipEnd
    \/ ZipLeft
    \/ ZipRight
    \/ ZipSame
    \/ ZipDiffer
    \/ PromptYes
    \/ PromptAll
    \/ PromptNo

SpecDriver == InitDriver /\ [][NextDriver]_vars

-----------------------------------------------------------------------------
(* Properties of zip_diff                                                  *)

Matching == caller = "zip_diff" /\ pc = "match"
OneSideEnded == (ret["old"] = None) # (ret["new"] = None)
SlicesOf(s) == Len(yielded[s])

\* a total comes back only with both sides ended after as many slices
ReturnedTogether ==
    (caller = "zip_diff" /\ pc = "returned") =>
        /\ ret["old"] = None
        /\ ret["new"] = None
        /\ SlicesOf("old") = SlicesOf("new")

\* one side ended and the other did not: the step taken is the panic
MismatchPanics ==
    (Matching /\ OneSideEnded) => (pc' = "panicked" /\ UNCHANGED zipVars)

\* C13: when one slice sequence ends before the other, zip_diff panics and
\* returns no total; a total is returned only when both sequences end after
\* the same number of slices.
C13_LengthMismatchFatal == []ReturnedTogether /\ [][MismatchPanics]_vars

C13_Witness ==
    /\ caller = "zip_diff"
    /\ pc = "panicked"
    /\ ret["old"] # None
    /\ ret["new"] = None
    /\ SlicesOf("old") = 2
    /\ SlicesOf("new") = 1

\* row i of the side is skipped: from gives Ok(None)
SkippedAt(s, i) == ClinicalDatum_from(its[s].rows[i]) = Ok(None)

\* the positions both exports have where one row is skipped and the other
\* one is a record
AsymmetricSkips ==
    {i \in 1..Min(Len(its["old"].rows), Len(its["new"].rows)) :
        \/ SkippedAt("old", i) /\ i \in RecordRows(its["new"])
        \/ SkippedAt("new", i) /\ i \in RecordRows(its["old"])}

\* C14: whenever a row of one input is skipped while the row at the same
\* position of the other input is a record, the run aborts with a fatal
\* error: it never completes with a count.
C14_AsymmetricSkipFatal ==
    (caller = "zip_diff" /\ AsymmetricSkips # {}) => pc # "returned"

\* C15: if a row of either input triggers a fatal structural error or the
\* slice sequences have different lengths, no difference of any pair has
\* been printed and no confirmation prompt issued before the run aborts.
C15_NoPartialResults ==
    (caller = "zip_diff" /\ pc = "panicked") => log = <<>>

\* reading the log of what zip_diff printed and asked
IsPrint(e) == e.ev = "print"
IsPrompt(e) == e.ev = "prompt"
IsAnswer(e, a) == IF e.ev = "prompt" THEN e.answer = a ELSE FALSE
AllBefore(l, k) == \E j \in 1..(k - 1) : IsAnswer(l[j], "All")

\* the printed differences that go to the sum: those printed after an All,
\* and those answered Yes or All
Accepted(l, k) ==
    /\ IsPrint(l[k])
    /\ \/ AllBefore(l, k)
       \/ /\ k < Len(l)
          /\ IsAnswer(l[k + 1], "Yes") \/ IsAnswer(l[k + 1], "All")

RECURSIVE CountedUpTo(_, _)
CountedUpTo(l, k) ==
    IF k = 0 THEN 0
    ELSE CountedUpTo(l, k - 1) + (IF Accepted(l, k) THEN l[k].count ELSE 0)

\* a prompt comes right after the print of its pair, and never after an All
PromptFollowsPrint ==
    \A k \in DOMAIN log :
        IsPrompt(log[k]) =>
            /\ k > 1
            /\ IsPrint(log[k - 1])
            /\ log[k - 1].pair = log[k].pair
            /\ log[k - 1].count > 0
            /\ ~AllBefore(log, k)

\* while no All was answered, every print is followed by its one prompt
PrintIsGated ==
    \A k \in DOMAIN log :
        (IsPrint(log[k]) /\ ~AllBefore(log, k)) =>
            IF k = Len(log) THEN pc = "prompt" ELSE IsPrompt(log[k + 1])

\* a pair is printed once, a pair is asked about once
OncePerPair ==
    \A j, k \in DOMAIN log :
        (j < k /\ log[j].ev = log[k].ev) => log[j].pair < log[k].pair

\* No is the last thing that happens
NoIsFinal ==
    /\ \A k \in DOMAIN log : IsAnswer(log[k], "No") => (k = Len(log) /\ pc = "exited")
    /\ pc = "exited" => (log # <<>> /\ IsAnswer(log[Len(log)], "No"))

\* what was compared and accepted is what is counted
CountedAll == total = CountedUpTo(log, Len(log))

GateLog ==
    caller = "zip_diff" =>
        /\ PromptFollowsPrint
        /\ PrintIsGated
        /\ OncePerPair
        /\ NoIsFinal
        /\ CountedAll

\* the step taken on a pair of slices: nothing printed nor asked when the
\* diff is None; printed, then asked unless skip_input, when it is Some
PairStep(d) ==
    IF d = None
    THEN log' = log /\ pc' = "first"
    ELSE /\ log' = Append(log, [ev |-> "print", pair |-> PairNo, count |-> Len(d.val)])
         /\ pc' = IF skip_input THEN "first" ELSE "prompt"

GateStep ==
    /\ pc # "exited"
    /\ IF Matching /\ ret["old"] # None /\ ret["new"] # None
       THEN PairStep(PatientSlice_diff(ret["old"].val, ret["new"].val))
       ELSE TRUE
    /\ pc = "prompt" => (Len(log') = Len(log) + 1 /\ IsPrompt(log'[Len(log')]) /\ pc' # "prompt")

\* C16: the gate is never invoked for a pair whose diff is None; it is
\* invoked exactly once, after the pair's differences are printed, for each
\* differing pair while no earlier answer was All; after All it is never
\* invoked again and the remaining pairs are still compared and counted; on
\* No no further pair is pulled or compared.
C16_GateProtocol == []GateLog /\ [][GateStep]_vars

\* All answered on the first pair, the second pair printed and counted
\* without a prompt
C16_Witness ==
    /\ caller = "zip_diff"
    /\ pc = "returned"
    /\ Len(log) = 3
    /\ IsAnswer(log[2], "All")
    /\ IsPrint(log[3])
    /\ total = log[1].count + log[3].count

-----------------------------------------------------------------------------
(* Section::diff on two Multiple sections, checked under SpecDiff          *)

BothMultiple ==
    /\ level = "Section"
    /\ lhs.cdes.tag = "Multiple"
    /\ rhs.cdes.tag = "Multiple"

\* the section with only its first n instances
Truncated(sec, n) == [sec EXCEPT !.cdes = Multiple(SubSeq(sec.cdes.maps, 1, n))]

IsPrefix(u, v) == Len(u) <= Len(v) /\ u = SubSeq(v, 1, Len(u))

\* the two sections differ only by extra trailing instances
TrailingOnly ==
    /\ lhs.code = rhs.code
    /\ lhs.allow_multiple = rhs.allow_multiple
    /\ Len(lhs.cdes.maps) # Len(rhs.cdes.maps)
    /\ IsPrefix(lhs.cdes.maps, rhs.cdes.maps) \/ IsPrefix(rhs.cdes.maps, lhs.cdes.maps)

SharedInstancesAgree ==
    \A i \in 1..Min(Len(lhs.cdes.maps), Len(rhs.cdes.maps)) :
        diff_cdes(lhs.cdes.maps[i], rhs.cdes.maps[i]) = None

\* C20: Section::diff on two Multiple sections compares the instances at
\* the positions both lists have and no others: the result is that of the
\* two sections cut to the shorter length, a difference in the number of
\* instances alone gives no entry, and two sections that differ only by
\* extra trailing instances diff to None.
C20_MultipleZipTruncation ==
    (Diffed /\ BothMultiple) =>
        /\ result = Section_diff(
                Truncated(lhs, Min(Len(lhs.cdes.maps), Len(rhs.cdes.maps))),
                Truncated(rhs, Min(Len(lhs.cdes.maps), Len(rhs.cdes.maps))))
        /\ (lhs.code = rhs.code) => (result = None <=> SharedInstancesAgree)
        /\ TrailingOnly => result = None

C20_Witness ==
    /\ Diffed
    /\ BothMultiple
    /\ TrailingOnly
    /\ Len(lhs.cdes.maps) = 1
    /\ Len(rhs.cdes.maps) = 2
    /\ rhs.cdes.maps[2] # rhs.cdes.maps[1]
    /\ result = None

-----------------------------------------------------------------------------
(* Termination of the streaming.rs assembler.  The program keeps running   *)
(* while it has a step that changes its state; an iteration of `loop` that *)
(* changes nothing is a stuttering step.                                   *)

SpecStreamingLive == SpecStreaming /\ WF_vars(NextStreaming)

\* inside the `loop` of RegistryData::next, a slice opened
InLoop == wiring = "streaming" /\ pc = "loop"

\* the row in the Peekable's slot is a skipped one
PeekedSkip ==
    /\ its[cur].peeked # None
    /\ its[cur].peeked.val # None
    /\ its[cur].wrapped[its[cur].pos] = Ok(None)

\* C21: every call of RegistryData::next of streaming.rs returns after
\* finitely many steps, also when the row peeked after an opened slice is
\* a skipped one: the loop is always left.
C21_Terminates == InLoop ~> ~InLoop

-----------------------------------------------------------------------------
(* PatientSlice::diff of two slices built by from and guarded add calls,   *)
(* checked under SpecDiff                                                  *)

SlicesDiffed == Diffed /\ level = "PatientSlice"

\* the ClinicalDatumDifference entries of a PatientSlice::diff result
DatumEntries(r) ==
    IF r = None THEN <<>>
    ELSE Flatten([i \in 1..Len(r.val) |->
                    IF r.val[i].diff.type = "ClinicalData" THEN r.val[i].diff.diffs ELSE <<>>])

\* the FormDifference entries of a record-level entry
FormEntries(e) == IF e.diff.type = "Forms" THEN e.diff.diffs ELSE <<>>

IsMissing(e, l, r) == IF e.diff.type = "Missing" THEN e.diff = Missing(l, r) ELSE FALSE

\* the records of m1 whose fingerprint m2 does not hold
Unmatched(m1, m2) == DOMAIN m1 \ DOMAIN m2

NoFormLevelMissing(es) ==
    \A i \in DOMAIN es : \A j \in DOMAIN FormEntries(es[i]) :
        FormEntries(es[i])[j].diff.type # "Missing"

\* one whole-record Missing per unmatched fingerprint of either side, and
\* no other
WholeRecordMissing(es, m1, m2) ==
    /\ \A k \in Unmatched(m1, m2) :
          Cardinality({i \in DOMAIN es : IsMissing(es[i], Some(m1[k]), None)}) = 1
    /\ \A k \in Unmatched(m2, m1) :
          Cardinality({i \in DOMAIN es : IsMissing(es[i], None, Some(m2[k]))}) = 1
    /\ Cardinality({i \in DOMAIN es : es[i].diff.type = "Missing"})
          = Cardinality(Unmatched(m1, m2)) + Cardinality(Unmatched(m2, m1))

\* only records of the same set of form names meet in ClinicalDatum::diff
KeyedByForms(m) == \A k \in DOMAIN m : DOMAIN m[k].forms = k

\* C22: in PatientSlice::diff of two slices that satisfy the slice
\* invariant, two records are compared only if they have the same set of
\* form names, so a record-level Forms difference never holds a form-level
\* Missing: a form present in one export only surfaces as whole-record
\* Missing entries, one per side whose fingerprint is unmatched.
C22_NoFormLevelMissing ==
    SlicesDiffed =>
        /\ KeyedByForms(lhs.clinical_data)
        /\ KeyedByForms(rhs.clinical_data)
        /\ NoFormLevelMissing(DatumEntries(result))
        /\ WholeRecordMissing(DatumEntries(result), lhs.clinical_data, rhs.clinical_data)

\* the form g is in the record of one side only: one Missing per side
C22_Witness ==
    /\ SlicesDiffed
    /\ lhs.patient = rhs.patient
    /\ DOMAIN lhs.clinical_data = {{"f"}}
    /\ DOMAIN rhs.clinical_data = {{"f", "g"}}
    /\ Len(DatumEntries(result)) = 2
    /\ IsMissing(DatumEntries(result)[1], Some(lhs.clinical_data[{"f"}]), None)
    /\ IsMissing(DatumEntries(result)[2], None, Some(rhs.clinical_data[{"f", "g"}]))

=============================================================================
